---- MODULE Spec2Model ----
(***************************************************************************)
(* Model of the multi-city Panchangam viewer.  The repository holds seven  *)
(* near-duplicate scripts; each is modelled under a letter:                *)
(*   A  src/script.js 1-305          one file per city, fixed UTC offsets  *)
(*   B  src/script.js 307-628        home city's file, browser-local Dates *)
(*   C  src/unnamed/part_000 1-343   one file per city, "zoned" Dates      *)
(*   D  src/unnamed/part_000 345-614 base city's file, parseSection        *)
(*   E  src/unnamed/part_001         Portland file, naive minutes          *)
(*   F  src/unnamed/part_002 1-265   Portland file, browser-local Dates    *)
(*   G  src/unnamed/part_002 267-551 one file per city, browser-local Dates*)
(*                                                                         *)
(* Time.  The scripts count milliseconds; TLC's integers are 32 bit, so    *)
(* the model counts ticks, TicksPerMinute of them to the minute (with 2 a  *)
(* tick is 30 000 ms).  Almanac timestamps are whole minutes; "now" may    *)
(* fall on any tick.  Variant E counts whole minutes, as its code does.    *)
(* Time zones are the three cities' December offsets; the readings used    *)
(* lie in Nov 30 - Dec 1 2025, where none of the zones changes its offset, *)
(* so Intl's zone conversion is the fixed offset.                          *)
(***************************************************************************)
EXTENDS Integers, Sequences, FiniteSets, TLC

VARIABLES
  text,       \* the lines of one section of the fetched almanac file
  now,        \* the physical instant of the page load (ticks since 1970 UTC)
  city,       \* the viewing city
  browser,    \* the city whose zone is the browser's local zone
  variant,    \* which script has run ("none" before any has)
  stage,      \* "text" -> "parsed" -> "resolved" -> "rendered"
  intervals,  \* the parsed interval sequence
  query,      \* the instant handed to findCurrentAndNext
  result,     \* what findCurrentAndNext returned
  shown,      \* what the render step put on the page
  panchangamData, \* the interval sequences of the file's categories
  kalas,      \* the day's inauspicious windows, as the page lists them
  duration,   \* a remaining duration handed to a formatter
  phrase,     \* the formatter's text for it
  page,       \* the city's column: status line and fields
  written,    \* the display elements the render step has written
  units,      \* the cities' fetch-and-parse units and their columns
  reading,    \* wall-clock readings handed to the clock conversions
  converted   \* what the conversions made of them

vars == <<text, now, city, browser, variant, stage, intervals, query, result, shown,
          panchangamData, kalas, duration, phrase, page,
          written, units, reading, converted>>

\* The variables the parse / resolve / render steps of one category leave alone.
rest == <<panchangamData, kalas, duration, phrase, page>>

\* JS null / undefined / a property the object does not have.
Null == "null"

\* The variables of the page's elements, of the cities' units and of the
\* clock conversions, and their values where a step does not use them.
more == <<written, units, reading, converted>>

MoreUnused ==
  /\ written = {}
  /\ units = Null
  /\ reading = Null
  /\ converted = Null

---------------------------------------------------------------------------
(* Bounds of the model *)

\* Longest section text, in lines.
MaxLines == 3

\* The longest file, in lines, of the file-level specification.
MaxFileLines == 4

\* The longest remaining duration handed to a formatter, in minutes.
MaxMinutes == 125

\* Resolution of the clock: ticks per minute (60 * 1000 ms in the scripts).
TicksPerMinute == 2

---------------------------------------------------------------------------
(* Calendar arithmetic of the JS Date built-ins *)

IsLeap(y) == (y % 4 = 0 /\ y % 100 # 0) \/ y % 400 = 0

DaysInMonth(y, m) ==
  IF m = 2 THEN (IF IsLeap(y) THEN 29 ELSE 28)
  ELSE IF m \in {4, 6, 9, 11} THEN 30 ELSE 31

RECURSIVE DaysBeforeMonth(_, _)
DaysBeforeMonth(y, m) ==
  IF m <= 1 THEN 0 ELSE DaysBeforeMonth(y, m - 1) + DaysInMonth(y, m - 1)

\* Days from 1970-01-01 to January 1st of year y (y >= 1970).
DaysBeforeYear(y) ==
  365 * (y - 1970) + ((y - 1969) \div 4) - ((y - 1901) \div 100)
    + ((y - 1601) \div 400)

\* Date.UTC(y, m - 1, d, h, min, 0) in minutes since the epoch.  A day past
\* the month's end rolls into the next month, as in JS.
DateUTC(y, m, d, h, min) ==
  ((DaysBeforeYear(y) + DaysBeforeMonth(y, m) + (d - 1)) * 24 + h) * 60 + min

\* The years the inverse searches; the readings of the model lie in 2025.
Years == 2024..2026

\* getUTCFullYear / Month / Date / Hours / Minutes of a Date holding `mins`
\* minutes since the epoch (also Intl's formatToParts once the zone offset
\* has been added).
PartsOfMinutes(mins) ==
  LET days == mins \div 1440
      y    == CHOOSE yy \in Years :
                DaysBeforeYear(yy) <= days /\ days < DaysBeforeYear(yy + 1)
      doy  == days - DaysBeforeYear(y)
      m    == CHOOSE mm \in 1..12 :
                /\ DaysBeforeMonth(y, mm) <= doy
                /\ doy < DaysBeforeMonth(y, mm) + DaysInMonth(y, mm)
  IN  [y |-> y, m |-> m, d |-> doy - DaysBeforeMonth(y, m) + 1,
       h |-> (mins % 1440) \div 60, min |-> mins % 60]

---------------------------------------------------------------------------
(* Cities and zones *)

Cities == {"portland", "boston", "chennai"}

\* utcOffsetMinutes of variant A's table; the December offset of the IANA
\* zone the other variants name for the same city.
Offset(c) ==
  CASE c = "portland" -> -8 * 60
    [] c = "boston"   -> -5 * 60
    [] c = "chennai"  -> 5 * 60 + 30

\* A: city-local Y/M/D H:M to UTC (in ticks).
cityLocalToUtcMs(year, month, day, hour, minute, offsetMinutes) ==
  LET msAsUtc == DateUTC(year, month, day, hour, minute) * TicksPerMinute
  IN  msAsUtc - offsetMinutes * TicksPerMinute

\* C: a Date whose UTC fields equal the city's local date-time.
makeZonedDate(y, m, d, hh, mm) == DateUTC(y, m, d, hh, mm) * TicksPerMinute

\* B, F, G (makeLocalDate / makeDateLocal) and D (parseTimestamp's Date):
\* new Date(Y, M - 1, D, h, m) reads the fields in the browser's zone.
makeLocalDate(r, browserZone) ==
  (DateUTC(r.y, r.m, r.d, r.h, r.min) - Offset(browserZone)) * TicksPerMinute

\* E with 30 for the 32 day slots of a month.
toNaiveMinutes_30days(y, m, d, h, min) ==
  ((((y * 12 + (m - 1)) * 30 + d) * 24 + h) * 60) + min

\* E: "minutes since big bang", no time zones.
toNaiveMinutes(y, m, d, h, min) ==
  ((((y * 12 + (m - 1)) * 32 + d) * 24 + h) * 60) + min

\* C: getNowInZone: a Date whose UTC fields are the zone's wall clock, to
\* the second.
getNowInZone(instant, timeZone) == instant + Offset(timeZone) * TicksPerMinute

\* E: getLocalParts: the zone's wall-clock fields, to the minute.
getLocalParts(instant, timeZone) ==
  PartsOfMinutes(getNowInZone(instant, timeZone) \div TicksPerMinute)

\* D and G: new Date(d.toLocaleString("en-US", {timeZone})): the city's wall
\* clock (to the second) read again in the browser's zone.
cityWallAsLocal(instant, timeZone, browserZone) ==
  getNowInZone(instant, timeZone) - Offset(browserZone) * TicksPerMinute

---------------------------------------------------------------------------
(* The almanac text *)

\* A wall-clock reading as the file writes it: YYYY/MM/DD HH:MM.
Rd(y, m, d, h, min) == [y |-> y, m |-> m, d |-> d, h |-> h, min |-> min]

R1 == Rd(2025, 11, 30, 22, 0)
R2 == Rd(2025, 11, 30, 23, 30)
R3 == Rd(2025, 12, 1, 0, 30)
R4 == Rd(2025, 12, 1, 2, 0)

\* A line of the file, by what the scripts' tests and regular expressions
\* can tell apart:
\*   "blank"    the empty line
\*   "divider"  a run of '=' characters
\*   "junk"     text that is no header and has no "<name>: <timestamps>" shape
\*   "header"   "<word> details:" (name holds the word as it is written)
\*   "record"   "<name>: <s> to <e>", single spaces; ss / es say whether the
\*              start / end time is written HH:MM:SS instead of HH:MM
RecordLine(name, s, e, ss, es) ==
  [kind |-> "record", name |-> name, s |-> s, e |-> e, ss |-> ss, es |-> es]

OtherLine(kind, name) ==
  [kind |-> kind, name |-> name, s |-> R1, e |-> R1, ss |-> FALSE, es |-> FALSE]

BlankLine == OtherLine("blank", "")
DividerLine == OtherLine("divider", "=====")
JunkLine == OtherLine("junk", "Sunrise 07:31")
HeaderLine(label) == OtherLine("header", label)

\* Names (the text before the first colon) that begin with "Next ".
NextNames == {"Next Thithi"}

\* !line.trim()
isBlank(l) == l.kind = "blank"

\* line.toLowerCase().startsWith("next ")
startsWithNext(l) == l.kind = "record" /\ l.name \in NextNames

\* toLowerCase() and the i flag, on the header words of the model.
lowerCase(w) ==
  CASE w \in {"Thithi", "THITHI"} -> "thithi"
    [] w = "Nakshatram"           -> "nakshatram"
    [] w = "Nakshatra"            -> "nakshatra"
    [] w = "Yogam"                -> "yogam"
    [] w = "Karanam"              -> "karanam"
    [] OTHER                      -> w

isHeader(l) == l.kind = "header"

\* The first index of a non-empty set of indices: where a search or a loop
\* that breaks on the set's condition stops.
FirstIndex(S) == CHOOSE i \in S : \A j \in S : i <= j

---------------------------------------------------------------------------
(* Interval parsers *)

\* A: /^([^:]+):\s+DATE\s+HH:MM(?::\d{2})?\s+to\s+DATE\s+HH:MM(?::\d{2})?/
matchRecord_A(l) == l.kind = "record"

\* A: parseIntervals(sectionText, offsetMinutes).  Blank lines are filtered
\* out, lines that do not match are skipped, nothing else is.
parseIntervals_A(sectionText, offsetMinutes) ==
  LET lines == SelectSeq(sectionText, LAMBDA l : ~isBlank(l))
      entry(l) ==
        [name  |-> l.name,
         start |-> cityLocalToUtcMs(l.s.y, l.s.m, l.s.d, l.s.h, l.s.min, offsetMinutes),
         end   |-> cityLocalToUtcMs(l.e.y, l.e.m, l.e.d, l.e.h, l.e.min, offsetMinutes)]
      kept == SelectSeq(lines, matchRecord_A)
  IN  [i \in 1..Len(kept) |-> entry(kept[i])]

\* A's extractSection without "if (!m) return": with no match it gives the
\* text itself.
extractSection_A_noAbsentTest(lines, header) ==
  LET dividerOf(i) ==
        LET later == {j \in (i + 1)..Len(lines) : ~isBlank(lines[j])}
        IN  IF later # {} /\ lines[FirstIndex(later)].kind = "divider"
              THEN FirstIndex(later) ELSE 0
      starts == {i \in 1..Len(lines) :
                   /\ isHeader(lines[i])
                   /\ lowerCase(lines[i].name) = lowerCase(header)
                   /\ dividerOf(i) # 0}
  IN  IF starts = {} THEN lines
      ELSE LET d    == dividerOf(FirstIndex(starts))
               ends == {j \in (d + 1)..Len(lines) : isHeader(lines[j])}
           IN  SubSeq(lines, d + 1,
                      IF ends = {} THEN Len(lines) ELSE FirstIndex(ends) - 1)

\* A: extractSection(text, header), as lines:
\*   header\s+details:\s*=+([\s\S]*?)(?=\n\w+\s+details:|$)   with the i flag.
\* The match starts at the first header line of that word, in any case,
\* whose next non-blank line is the divider; the capture runs from after
\* the divider to before the next "<word> details:" line or to the end.
\* No match gives "", no lines.
extractSection_A(lines, header) ==
  LET dividerOf(i) ==
        LET later == {j \in (i + 1)..Len(lines) : ~isBlank(lines[j])}
        IN  IF later # {} /\ lines[FirstIndex(later)].kind = "divider"
              THEN FirstIndex(later) ELSE 0
      starts == {i \in 1..Len(lines) :
                   /\ isHeader(lines[i])
                   /\ lowerCase(lines[i].name) = lowerCase(header)
                   /\ dividerOf(i) # 0}
  IN  IF starts = {} THEN <<>>
      ELSE LET d    == dividerOf(FirstIndex(starts))
               ends == {j \in (d + 1)..Len(lines) : isHeader(lines[j])}
           IN  SubSeq(lines, d + 1,
                      IF ends = {} THEN Len(lines) ELSE FirstIndex(ends) - 1)

\* C: /^(.+?):\s*(\d{4})\/(\d{2})\/(\d{2}) (\d{2}):(\d{2}) to ... (\d{2}):(\d{2})$/
\* Anchored at both ends: no seconds on either time.
matchIntervalLine_C(l) == l.kind = "record" /\ ~l.ss /\ ~l.es

\* C: parseIntervalLine(line), for a line that matches.
parseIntervalLine_C(l) ==
  [name  |-> l.name,
   start |-> makeZonedDate(l.s.y, l.s.m, l.s.d, l.s.h, l.s.min),
   end   |-> makeZonedDate(l.e.y, l.e.m, l.e.d, l.e.h, l.e.min)]

\* C: extractSection(lines, startLabel), startLabel being "<word> details":
\* the header is found with startsWith, in the case it is written in the
\* script; the lines after it are taken until a line that ends with
\* "details:" (any case) and does not start with startLabel.
extractSection_C(lines, startLabel) ==
  LET starts == {i \in 1..Len(lines) : isHeader(lines[i]) /\ lines[i].name = startLabel}
  IN  IF starts = {} THEN <<>>
      ELSE LET startIdx == FirstIndex(starts)
               breaks   == {j \in (startIdx + 1)..Len(lines) :
                              isHeader(lines[j]) /\ lines[j].name # startLabel}
           IN  SubSeq(lines, startIdx + 1,
                      IF breaks = {} THEN Len(lines) ELSE FirstIndex(breaks) - 1)

\* C: getIntervalsFromSection(sectionLines).
getIntervalsFromSection_C(sectionLines) ==
  LET keep(l) == ~isBlank(l) /\ ~startsWithNext(l) /\ matchIntervalLine_C(l)
      kept == SelectSeq(sectionLines, keep)
  IN  [i \in 1..Len(kept) |-> parseIntervalLine_C(kept[i])]

\* D: /^(.+?):\s*(.+?)\s+to\s+(.+?)$/ and parseTimestamp giving a Date for
\* both sides (five or more numeric parts; a sixth, the seconds, is ignored).
matchRecord_D(l) == l.kind = "record"

\* D: a line that begins with a letter (the "[A-Z]" of the section regex,
\* which has the i flag).
startsWithLetter(l) == l.kind \in {"record", "junk", "header"}

\* D: what parseSection's regex
\*   Thithi\s*details?:\s*([\s\S]*?)(?=\n\n[A-Z]|$)
\* captures from the lines that follow the header: the blank lines after
\* the header belong to the "\s*", and the capture stops before the first
\* empty line that is followed by a line beginning with a letter.
sectionText_D(after) ==
  LET lead == {i \in 1..Len(after) : \A j \in 1..i : isBlank(after[j])}
      body == SubSeq(after, Cardinality(lead) + 1, Len(after))
      cuts == {i \in 1..(Len(body) - 1) :
                 isBlank(body[i]) /\ startsWithLetter(body[i + 1])}
  IN  IF cuts = {} THEN body
      ELSE SubSeq(body, 1, (CHOOSE i \in cuts : \A j \in cuts : i <= j) - 1)

\* D: parseSection(text, sectionName), text being the lines of the file.
\* The variations of the name are tried in order (the name itself, then
\* the name with "Nakshatram" replaced by "Nakshatra"); each is searched
\* with the i flag, and a section text that is empty counts as no section.
\* parseTimestamp builds browser-local Dates.
parseSection_D(lines, sectionName, browserZone) ==
  LET variations == <<sectionName,
                      IF sectionName = "Nakshatram" THEN "Nakshatra" ELSE sectionName>>
      heads(v) == {i \in 1..Len(lines) :
                     isHeader(lines[i]) /\ lowerCase(lines[i].name) = lowerCase(v)}
      matching == {k \in 1..2 : heads(variations[k]) # {}}
      sectionText ==
        IF matching = {} THEN <<>>
        ELSE sectionText_D(SubSeq(lines,
                                  FirstIndex(heads(variations[FirstIndex(matching)])) + 1,
                                  Len(lines)))
      entry(l) ==
        [name  |-> l.name,
         start |-> makeLocalDate(l.s, browserZone),
         end   |-> makeLocalDate(l.e, browserZone)]
      kept == SelectSeq(SelectSeq(sectionText, LAMBDA l : ~isBlank(l)), matchRecord_D)
  IN  [i \in 1..Len(kept) |-> entry(kept[i])]

\* B, E, F, G: /^([^:]+):\s+DATE\s+(HH:MM)\s+to\s+DATE\s+(HH:MM)/
\* White space must follow the start time's minutes; what follows the end
\* time's minutes is not looked at.
matchRecord_G(l) == l.kind = "record" /\ ~l.ss

Categories == {"tithi", "nakshatra", "yogam", "karanam"}

\* B, E, F, G: the header tests of parsePanchangam's loop
\* (lower.startsWith("thithi details") and so on).
sectionOfHeader(l) ==
  IF ~isHeader(l) THEN Null
  ELSE CASE lowerCase(l.name) = "thithi"     -> "tithi"
         [] lowerCase(l.name) = "nakshatram" -> "nakshatra"
         [] lowerCase(l.name) = "yogam"      -> "yogam"
         [] lowerCase(l.name) = "karanam"    -> "karanam"
         [] OTHER                            -> Null

\* B, E, F, G: parsePanchangam's loop from line i on, with the current
\* section and the lines pushed so far to each category.
RECURSIVE scanPanchangam(_, _, _, _)
scanPanchangam(lines, i, section, data) ==
  IF i > Len(lines) THEN data
  ELSE LET l == lines[i] IN
    IF isBlank(l) THEN scanPanchangam(lines, i + 1, section, data)
    ELSE IF sectionOfHeader(l) # Null
      THEN scanPanchangam(lines, i + 1, sectionOfHeader(l), data)
    ELSE IF startsWithNext(l) \/ section = Null \/ ~matchRecord_G(l)
      THEN scanPanchangam(lines, i + 1, section, data)
    ELSE scanPanchangam(lines, i + 1, section,
                        [data EXCEPT ![section] = Append(@, l)])

\* B (and F, G, whose parsePanchangam is the same code): browser-local Dates.
parsePanchangam_B(lines, browserZone) ==
  LET data == scanPanchangam(lines, 1, Null, [c \in Categories |-> <<>>])
      entry(l) ==
        [name  |-> l.name,
         start |-> makeLocalDate(l.s, browserZone),
         end   |-> makeLocalDate(l.e, browserZone)]
  IN  [c \in Categories |-> [i \in 1..Len(data[c]) |-> entry(data[c][i])]]

\* G: parsePanchangam(text).
parsePanchangam_G(lines, browserZone) ==
  LET data == scanPanchangam(lines, 1, Null, [c \in Categories |-> <<>>])
      entry(l) ==
        [name  |-> l.name,
         start |-> makeLocalDate(l.s, browserZone),
         end   |-> makeLocalDate(l.e, browserZone)]
  IN  [c \in Categories |-> [i \in 1..Len(data[c]) |-> entry(data[c][i])]]

\* F: parsePanchangam(text), the dates through makeDateLocal.
parsePanchangam_F(lines, browserZone) ==
  LET data == scanPanchangam(lines, 1, Null, [c \in Categories |-> <<>>])
      entry(l) ==
        [name  |-> l.name,
         start |-> makeLocalDate(l.s, browserZone),
         end   |-> makeLocalDate(l.e, browserZone)]
  IN  [c \in Categories |-> [i \in 1..Len(data[c]) |-> entry(data[c][i])]]

\* E: parsePanchangam(text): the fields and their naive minutes.
parsePanchangam_E(lines) ==
  LET data == scanPanchangam(lines, 1, Null, [c \in Categories |-> <<>>])
      entry(l) ==
        [name     |-> l.name,
         startRd  |-> l.s,
         endRd    |-> l.e,
         start    |-> toNaiveMinutes(l.s.y, l.s.m, l.s.d, l.s.h, l.s.min),
         end      |-> toNaiveMinutes(l.e.y, l.e.m, l.e.d, l.e.h, l.e.min)]
  IN  [c \in Categories |-> [i \in 1..Len(data[c]) |-> entry(data[c][i])]]

---------------------------------------------------------------------------
(* Temporal resolvers *)

\* The first index of a non-empty set of indices: where a loop that breaks
\* on the set's condition stops.
FirstOf(S) == CHOOSE i \in S : \A j \in S : i <= j

\* What findCurrentAndNext returns.  current and next are positions in the
\* sequence handed in (0 for null): the scripts return the elements
\* themselves.  remaining is Null where the script's resolver returns no
\* such field.  threw is never set by the scripts' code.
Resolved(current, next, remaining) ==
  [current |-> current, next |-> next, remaining |-> remaining, threw |-> FALSE]

\* A with the end of an interval taken as part of it (<= for <).
findCurrentAndNext_A_closedEnd(entries, nowUtcMs) ==
  LET stops == {i \in 1..Len(entries) :
                  \/ (nowUtcMs >= entries[i].start /\ nowUtcMs <= entries[i].end)
                  \/ nowUtcMs < entries[i].start}
  IN  IF stops = {} THEN Resolved(0, 0, Null)
      ELSE LET i == FirstOf(stops) IN
        IF nowUtcMs >= entries[i].start /\ nowUtcMs <= entries[i].end
          THEN Resolved(i, IF i + 1 <= Len(entries) THEN i + 1 ELSE 0, Null)
          ELSE Resolved(0, i, Null)

\* A: one loop that stops at the first entry that either contains now or
\* starts after it.
findCurrentAndNext_A(entries, nowUtcMs) ==
  LET stops == {i \in 1..Len(entries) :
                  \/ (nowUtcMs >= entries[i].start /\ nowUtcMs < entries[i].end)
                  \/ nowUtcMs < entries[i].start}
  IN  IF stops = {} THEN Resolved(0, 0, Null)
      ELSE LET i == FirstOf(stops) IN
        IF nowUtcMs >= entries[i].start /\ nowUtcMs < entries[i].end
          THEN Resolved(i, IF i + 1 <= Len(entries) THEN i + 1 ELSE 0, Null)
          ELSE Resolved(0, i, Null)

\* B: a first loop for the current index, a second for the next interval in
\* the future when there is no current one.
findCurrentAndNext_B(ivs, t) ==
  LET hits   == {i \in 1..Len(ivs) : t >= ivs[i].start /\ t < ivs[i].end}
      future == {i \in 1..Len(ivs) : t < ivs[i].start}
  IN  IF hits # {}
        THEN LET currentIdx == FirstOf(hits) IN
          Resolved(currentIdx,
                   IF currentIdx + 1 <= Len(ivs) THEN currentIdx + 1 ELSE 0,
                   ivs[currentIdx].end - t)
        ELSE Resolved(0, IF future = {} THEN 0 ELSE FirstOf(future), Null)

\* C: only the loop for the current interval; next is intervals[i + 1] || null.
findCurrentAndNext_C(ivs, nowZoned) ==
  LET hits == {i \in 1..Len(ivs) : nowZoned >= ivs[i].start /\ nowZoned < ivs[i].end}
  IN  IF hits = {} THEN Resolved(0, 0, Null)
      ELSE LET i == FirstOf(hits) IN
        Resolved(i, IF i + 1 <= Len(ivs) THEN i + 1 ELSE 0, Null)

\* D without the test of intervals.length: reading intervals[0].start of an
\* empty array throws a TypeError.
findCurrentAndNext_D_noLengthGuard(ivs, t) ==
  LET hits == {i \in 1..Len(ivs) : t >= ivs[i].start /\ t < ivs[i].end}
  IN  IF hits # {}
        THEN LET i == FirstOf(hits) IN
          Resolved(i, IF i + 1 <= Len(ivs) THEN i + 1 ELSE 0, Null)
      ELSE IF Len(ivs) = 0
        THEN [Resolved(0, 0, Null) EXCEPT !.threw = TRUE]
      ELSE IF t < ivs[1].start
        THEN Resolved(0, 1, Null)
        ELSE Resolved(Len(ivs), 0, Null)

\* D: "If not found, return first or last".
findCurrentAndNext_D(ivs, t) ==
  LET hits == {i \in 1..Len(ivs) : t >= ivs[i].start /\ t < ivs[i].end}
  IN  IF hits # {}
        THEN LET i == FirstOf(hits) IN
          Resolved(i, IF i + 1 <= Len(ivs) THEN i + 1 ELSE 0, Null)
      ELSE IF Len(ivs) > 0
        THEN IF t < ivs[1].start
               THEN Resolved(0, 1, Null)
               ELSE Resolved(Len(ivs), 0, Null)
      ELSE Resolved(0, 0, Null)

\* E: as B, on startMin / endMin (the model's start / end of an E interval).
findCurrentAndNext_E(ivs, nowMin) ==
  LET hits   == {i \in 1..Len(ivs) : nowMin >= ivs[i].start /\ nowMin < ivs[i].end}
      future == {i \in 1..Len(ivs) : nowMin < ivs[i].start}
  IN  IF hits # {}
        THEN LET currentIdx == FirstOf(hits) IN
          Resolved(currentIdx,
                   IF currentIdx + 1 <= Len(ivs) THEN currentIdx + 1 ELSE 0,
                   ivs[currentIdx].end - nowMin)
        ELSE Resolved(0, IF future = {} THEN 0 ELSE FirstOf(future), Null)

\* G: the same code as B.
findCurrentAndNext_G(ivs, t) ==
  LET hits   == {i \in 1..Len(ivs) : t >= ivs[i].start /\ t < ivs[i].end}
      future == {i \in 1..Len(ivs) : t < ivs[i].start}
  IN  IF hits # {}
        THEN LET currentIdx == FirstOf(hits) IN
          Resolved(currentIdx,
                   IF currentIdx + 1 <= Len(ivs) THEN currentIdx + 1 ELSE 0,
                   ivs[currentIdx].end - t)
        ELSE Resolved(0, IF future = {} THEN 0 ELSE FirstOf(future), Null)

\* F with the second loop running to the end of the sequence (no break):
\* next is the last interval in the future.
findCurrentAndNext_F_noBreak(ivs, nowUtc) ==
  LET hits   == {i \in 1..Len(ivs) : nowUtc >= ivs[i].start /\ nowUtc < ivs[i].end}
      future == {i \in 1..Len(ivs) : nowUtc < ivs[i].start}
  IN  IF hits # {}
        THEN LET currentIdx == FirstOf(hits) IN
          Resolved(currentIdx,
                   IF currentIdx + 1 <= Len(ivs) THEN currentIdx + 1 ELSE 0,
                   ivs[currentIdx].end - nowUtc)
        ELSE Resolved(0,
                      IF future = {} THEN 0
                      ELSE CHOOSE i \in future : \A j \in future : j <= i,
                      Null)

\* F: the same code as B.
findCurrentAndNext_F(ivs, nowUtc) ==
  LET hits   == {i \in 1..Len(ivs) : nowUtc >= ivs[i].start /\ nowUtc < ivs[i].end}
      future == {i \in 1..Len(ivs) : nowUtc < ivs[i].start}
  IN  IF hits # {}
        THEN LET currentIdx == FirstOf(hits) IN
          Resolved(currentIdx,
                   IF currentIdx + 1 <= Len(ivs) THEN currentIdx + 1 ELSE 0,
                   ivs[currentIdx].end - nowUtc)
        ELSE Resolved(0, IF future = {} THEN 0 ELSE FirstOf(future), Null)

---------------------------------------------------------------------------
(* Rendering of one periodic category *)

\* What the page shows for the category: the current name (or the script's
\* placeholder), the duration the script computes for the "remaining" field
\* before it formats it (Null when it computes none), and the position of
\* the interval shown as next (0 for none).
Shown(current, remainingMs, next) ==
  [current |-> current, remainingMs |-> remainingMs, next |-> next]

\* A: renderSection(cityId, sectionName, data, offsetMinutes, nowUtcMs), the
\* three elements being on the page.
renderSection_A(entries, data, nowUtcMs) ==
  Shown(IF data.current = 0 THEN "Not in range" ELSE entries[data.current].name,
        IF data.current = 0 THEN Null
                             ELSE entries[data.current].end - nowUtcMs,
        data.next)

\* D: renderSection(title, intervals, nowBase, cityTimeZone): resolves with
\* nowBase, computes the remaining time from cityNow.
renderSection_D(ivs, nowBase, cityTimeZone, browserZone) ==
  LET r       == findCurrentAndNext_D(ivs, nowBase)
      cityNow == cityWallAsLocal(nowBase, cityTimeZone, browserZone)
  IN  Shown(IF r.current = 0 THEN "N/A" ELSE ivs[r.current].name,
            IF r.current = 0 THEN Null ELSE ivs[r.current].end - cityNow,
            r.next)

---------------------------------------------------------------------------
(* Inputs *)

\* Every text of at most MaxLines lines over a set of lines.
TextsOver(L) == UNION {[1..n -> L] : n \in 0..MaxLines}

Plain(name, s, e) == RecordLine(name, s, e, FALSE, FALSE)

\* Record lines for the resolvers: a contiguous chain R1-R2-R3-R4, a
\* record that overlaps it, one of zero length and one that ends before it
\* starts.  The parsers take every order and every one of these shapes.
ResolveLines ==
  {Plain("Prathama", R1, R2), Plain("Vidhiya", R2, R3), Plain("Thrithiya", R3, R4),
   Plain("Vishti", R1, R3), Plain("Balava", R2, R2), Plain("Kaulava", R3, R2)}

\* Lines for the parsers: records with and without seconds, a "Next" line of
\* record shape, a record that ends before it starts, and lines that are
\* no records.
ParseLines ==
  {Plain("Prathama", R1, R2), Plain("Vidhiya", R2, R3),
   RecordLine("Prathama", R1, R2, TRUE, TRUE),
   RecordLine("Vidhiya", R2, R3, FALSE, TRUE),
   Plain("Next Thithi", R2, R3), Plain("Kaulava", R3, R2),
   BlankLine, DividerLine, JunkLine}

\* Lines for the remaining-time computation: the contiguous chain.
ChainLines ==
  {Plain("Prathama", R1, R2), Plain("Vidhiya", R2, R3), Plain("Thrithiya", R3, R4)}

Readings == {R1, R2, R3, R4}

\* The instants at which the wall clock of a zone in Z shows a reading, every
\* tick of that minute, and the tick before the first reading.
NowInstants(Z) ==
  {cityLocalToUtcMs(r.y, r.m, r.d, r.h, r.min, Offset(z)) + k :
     r \in Readings, z \in Z, k \in 0..(TicksPerMinute - 1)}
  \cup {cityLocalToUtcMs(R1.y, R1.m, R1.d, R1.h, R1.min, Offset(z)) - 1 : z \in Z}

InitWith(L, C, B, Z) ==
  /\ text \in TextsOver(L)
  /\ city \in C
  /\ browser \in B
  /\ now \in NowInstants(Z)
  /\ variant = "none"
  /\ stage = "text"
  /\ intervals = <<>>
  /\ query = Null
  /\ result = Null
  /\ shown = Shown(Null, Null, 0)
  /\ panchangamData = Null
  /\ kalas = Null
  /\ duration = Null
  /\ phrase = Null
  /\ page = Null
  /\ MoreUnused

\* The page is opened in Portland on Portland's column.
Init == InitWith(ResolveLines, {"portland"}, {"portland"}, {"portland"})

InitParse == InitWith(ParseLines, {"portland"}, {"portland"}, {"portland"})

\* The page is opened anywhere, on any city's column.
InitRender == InitWith(ChainLines, Cities, {"portland", "chennai"}, Cities)

---------------------------------------------------------------------------
(* Steps: parse the section, resolve, render *)

\* The file as parsePanchangam reads it: the Thithi header, then the section.
fileOf(sectionText) == <<HeaderLine("Thithi")>> \o sectionText

Parsed(v, ivs) ==
  /\ stage = "text"
  /\ variant' = v
  /\ intervals' = ivs
  /\ stage' = "parsed"
  /\ UNCHANGED <<text, now, city, browser, query, result, shown>>
  /\ UNCHANGED rest
  /\ UNCHANGED more

Parse_A == Parsed("A", parseIntervals_A(text, Offset(city)))

Parse_B == Parsed("B", parsePanchangam_B(fileOf(text), browser)["tithi"])

Parse_C == Parsed("C", getIntervalsFromSection_C(text))

Parse_D == Parsed("D", parseSection_D(fileOf(text), "Thithi", browser))

Parse_E == Parsed("E", parsePanchangam_E(fileOf(text))["tithi"])

Parse_G == Parsed("G", parsePanchangam_G(fileOf(text), browser)["tithi"])

ResolvedBy(v, q, r) ==
  /\ stage = "parsed"
  /\ variant = v
  /\ query' = q
  /\ result' = r
  /\ stage' = "resolved"
  /\ UNCHANGED <<text, now, city, browser, variant, intervals, shown>>
  /\ UNCHANGED rest
  /\ UNCHANGED more

\* A: loadCity: nowUtcMs = Date.now().
Resolve_A == ResolvedBy("A", now, findCurrentAndNext_A(intervals, now))

\* B: now = new Date().
Resolve_B == ResolvedBy("B", now, findCurrentAndNext_B(intervals, now))

\* C: processCity: nowZoned = getNowInZone(city.timeZone).
Resolve_C ==
  LET nowZoned == getNowInZone(now, city)
  IN  ResolvedBy("C", nowZoned, findCurrentAndNext_C(intervals, nowZoned))

\* D: renderCity: nowBase = new Date().
Resolve_D == ResolvedBy("D", now, findCurrentAndNext_D(intervals, now))

\* E: cityNowMinutes[id] = toNaiveMinutes(getLocalParts(nowUtc, tz)).
Resolve_E ==
  LET parts  == getLocalParts(now, city)
      nowMin == toNaiveMinutes(parts.y, parts.m, parts.d, parts.h, parts.min)
  IN  ResolvedBy("E", nowMin, findCurrentAndNext_E(intervals, nowMin))

\* G: nowCity = new Date(browserNow.toLocaleString("en-US", {timeZone})).
Resolve_G ==
  LET nowCity == cityWallAsLocal(now, city, browser)
  IN  ResolvedBy("G", nowCity, findCurrentAndNext_G(intervals, nowCity))

\* A: renderSection returns at once when one of its three elements is
\* missing from the page.
Render_A ==
  /\ stage = "resolved"
  /\ variant = "A"
  /\ \E present \in BOOLEAN :
       shown' = IF present THEN renderSection_A(intervals, result, query) ELSE shown
  /\ stage' = "rendered"
  /\ UNCHANGED <<text, now, city, browser, variant, intervals, query, result>>
  /\ UNCHANGED rest
  /\ UNCHANGED more

\* D: renderCity adds renderSection's markup to the grid.
Render_D ==
  /\ stage = "resolved"
  /\ variant = "D"
  /\ shown' = renderSection_D(intervals, now, city, browser)
  /\ stage' = "rendered"
  /\ UNCHANGED <<text, now, city, browser, variant, intervals, query, result>>
  /\ UNCHANGED rest
  /\ UNCHANGED more

Next ==
  \/ Parse_A \/ Parse_B \/ Parse_C \/ Parse_D \/ Parse_E \/ Parse_G
  \/ Resolve_A \/ Resolve_B \/ Resolve_C \/ Resolve_D \/ Resolve_E \/ Resolve_G
  \/ Render_A \/ Render_D

Spec == Init /\ [][Next]_vars

SpecParse == InitParse /\ [][Next]_vars

SpecRender == InitRender /\ [][Next]_vars

---------------------------------------------------------------------------
(* Steps: from the file to the categories' interval sequences *)

\* The two categories the model follows through the file.
Followed == {"tithi", "nakshatra"}

\* A: loadCity: extractSection and parseIntervals for "Thithi" and for
\* "Nakshatram".
loadCity_A(lines, offsetMinutes) ==
  [c \in Followed |->
     parseIntervals_A(extractSection_A(lines, IF c = "tithi" THEN "Thithi" ELSE "Nakshatram"),
                      offsetMinutes)]

\* B: data = parsePanchangam(text).
loadHome_B(lines, browserZone) ==
  [c \in Followed |-> parsePanchangam_B(lines, browserZone)[c]]

\* C: processCity: extractSection and getIntervalsFromSection for
\* "Thithi details" and for "Nakshatram details".
processCity_C(lines) ==
  [c \in Followed |->
     getIntervalsFromSection_C(
       extractSection_C(lines, IF c = "tithi" THEN "Thithi" ELSE "Nakshatram"))]

\* D: loadPanchangam: parseSection(text, 'Thithi') and
\* parseSection(text, 'Nakshatram').
loadPanchangam_D(lines, browserZone) ==
  [c \in Followed |->
     parseSection_D(lines, IF c = "tithi" THEN "Thithi" ELSE "Nakshatram", browserZone)]

\* Lines of a file: headers in the script's spelling, in capitals and in
\* the "Nakshatra" spelling, the divider, the empty line and two records.
FileLines ==
  {HeaderLine("Thithi"), HeaderLine("THITHI"),
   HeaderLine("Nakshatram"), HeaderLine("Nakshatra"),
   DividerLine, BlankLine,
   Plain("Prathama", R1, R2), Plain("Vidhiya", R2, R3)}

\* The file was fetched in Portland for Portland's column; text holds the
\* lines of the whole file.
InitFile ==
  /\ text \in UNION {[1..n -> FileLines] : n \in 0..MaxFileLines}
  /\ city = "portland"
  /\ browser = "portland"
  /\ now = cityLocalToUtcMs(R1.y, R1.m, R1.d, R1.h, R1.min, Offset("portland"))
  /\ variant = "none"
  /\ stage = "text"
  /\ intervals = <<>>
  /\ query = Null
  /\ result = Null
  /\ shown = Shown(Null, Null, 0)
  /\ panchangamData = Null
  /\ kalas = Null
  /\ duration = Null
  /\ phrase = Null
  /\ page = Null
  /\ MoreUnused

Loaded(v, d) ==
  /\ stage = "text"
  /\ variant' = v
  /\ panchangamData' = d
  /\ intervals' = d["tithi"]
  /\ stage' = "loaded"
  /\ UNCHANGED <<text, now, city, browser, query, result, shown, kalas, duration,
                 phrase, page>>
  /\ UNCHANGED more

LoadFile_A == Loaded("A", loadCity_A(text, Offset(city)))

LoadFile_B == Loaded("B", loadHome_B(text, browser))

LoadFile_C == Loaded("C", processCity_C(text))

LoadFile_D == Loaded("D", loadPanchangam_D(text, browser))

NextFile == LoadFile_A \/ LoadFile_B \/ LoadFile_C \/ LoadFile_D

SpecFile == InitFile /\ [][NextFile]_vars

---------------------------------------------------------------------------
(* Steps: the inauspicious windows (Rahukala, Yamaganda, Durmuhurtha,
   Varjyam) of one section *)

\* A: getCityTodayString(nowUtcMs, offsetMinutes): "YYYY/MM/DD" in the city.
getCityTodayString(nowUtcMs, offsetMinutes) ==
  LET cityMs == nowUtcMs + offsetMinutes * TicksPerMinute
      d      == PartsOfMinutes(cityMs \div TicksPerMinute)
  IN  [y |-> d.y, m |-> d.m, d |-> d.d]

\* A's parseKalasForToday with the end date of the line compared to today.
parseKalasForToday_A_byEndDate(sectionText, offsetMinutes, nowUtcMs) ==
  LET todayStr == getCityTodayString(nowUtcMs, offsetMinutes)
      lines    == SelectSeq(sectionText, LAMBDA l : ~isBlank(l))
      keep(l)  == matchRecord_A(l) /\ [y |-> l.e.y, m |-> l.e.m, d |-> l.e.d] = todayStr
      kept     == SelectSeq(lines, keep)
  IN  [i \in 1..Len(kept) |->
         [startHour |-> kept[i].s.h, startMin |-> kept[i].s.min,
          endHour   |-> kept[i].e.h, endMin   |-> kept[i].e.min]]

\* A: parseKalasForToday(sectionText, offsetMinutes, nowUtcMs): one
\* "HH:MM - HH:MM" for every matching line whose start date is todayStr.
parseKalasForToday_A(sectionText, offsetMinutes, nowUtcMs) ==
  LET todayStr == getCityTodayString(nowUtcMs, offsetMinutes)
      lines    == SelectSeq(sectionText, LAMBDA l : ~isBlank(l))
      keep(l)  == matchRecord_A(l) /\ [y |-> l.s.y, m |-> l.s.m, d |-> l.s.d] = todayStr
      kept     == SelectSeq(lines, keep)
  IN  [i \in 1..Len(kept) |->
         [startHour |-> kept[i].s.h, startMin |-> kept[i].s.min,
          endHour   |-> kept[i].e.h, endMin   |-> kept[i].e.min]]

\* What the page presents for the section: the list of windows (view
\* "windows"), a current / remaining / next block (view "current/next"),
\* or nothing (view "none").
Presented(view, windows, block) == [view |-> view, windows |-> windows, block |-> block]

\* A: renderKalas(cityId, kalasByName), for one section whose element is on
\* the page: the windows joined by ", ".
renderKalas_A(arr) == Presented("windows", arr, Shown(Null, Null, 0))

\* D: renderCity's branch for one inauspicious section: renderSection when
\* the section has intervals, nothing otherwise.
renderCityKala_D(ivs, nowBase, cityTimeZone, browserZone) ==
  IF Len(ivs) > 0
    THEN Presented("current/next", <<>>,
                   renderSection_D(ivs, nowBase, cityTimeZone, browserZone))
    ELSE Presented("none", <<>>, Shown(Null, Null, 0))

\* Lines of a window section: windows that start on Nov 30 (one of them
\* ending on Dec 1) and on Dec 1, with and without seconds, and a line that
\* is no record.
KalaLines ==
  {Plain("Varjyam", R1, R2), Plain("Varjyam", R2, R3), Plain("Varjyam", R3, R4),
   RecordLine("Varjyam", R3, R4, TRUE, TRUE), JunkLine}

\* The page is opened on any city's column at any of the instants; text
\* holds the lines of the Varjyam section.
InitKalas == InitWith(KalaLines, Cities, {"portland"}, Cities)

KalasShown(v, k) ==
  /\ stage = "text"
  /\ variant' = v
  /\ kalas' = k
  /\ stage' = "kalas"
  /\ UNCHANGED <<text, now, city, browser, intervals, query, result, shown,
                 panchangamData, duration, phrase, page>>
  /\ UNCHANGED more

\* A: loadCity: parseKalasForToday of the section, then renderKalas, which
\* passes over a section whose element is missing from the page.
Kalas_A ==
  \E present \in BOOLEAN :
    KalasShown("A",
      IF present
        THEN renderKalas_A(IF Len(text) > 0
                             THEN parseKalasForToday_A(text, Offset(city), now)
                             ELSE <<>>)
        ELSE Presented("none", <<>>, Shown(Null, Null, 0)))

\* D: loadPanchangam's parseSection(text, 'Varjyam'), then renderCity.
Kalas_D ==
  KalasShown("D",
    renderCityKala_D(parseSection_D(<<HeaderLine("Varjyam")>> \o text, "Varjyam", browser),
                     now, city, browser))

NextKalas == Kalas_A \/ Kalas_D

SpecKalas == InitKalas /\ [][NextKalas]_vars

---------------------------------------------------------------------------
(* Steps: formatting a remaining duration *)

\* A JS value that is a number or null.
Number(n) == [null |-> FALSE, v |-> n]

NullValue == [null |-> TRUE, v |-> 0]

\* ToNumber: null counts as 0 in "<=" and in "-".
ToNumber(x) == IF x.null THEN 0 ELSE x.v

\* The text of a formatter: the hour clause "<hours> <hourWord>" if any,
\* the minute clause "<minutes> <minuteWord>" if any, then the words.
Phrase(hourClause, hours, hourWord, minuteClause, minutes, minuteWord, words) ==
  [hourClause |-> hourClause, hours |-> hours, hourWord |-> hourWord,
   minuteClause |-> minuteClause, minutes |-> minutes, minuteWord |-> minuteWord,
   words |-> words]

\* A text without figures; "-" stands for the dash the scripts write.
Words(w) == Phrase(FALSE, 0, "", FALSE, 0, "", w)

\* A: formatRemaining(ms).
formatRemaining_A(ms) ==
  IF ToNumber(ms) <= 0 THEN Phrase(FALSE, 0, "", TRUE, 0, "minutes", "remaining")
  ELSE LET totalMinutes == ms.v \div TicksPerMinute
           hours        == totalMinutes \div 60
           minutes      == totalMinutes % 60
           minuteWord   == IF minutes # 1 THEN "minutes" ELSE "minute"
       IN  IF hours > 0
             THEN Phrase(TRUE, hours, IF hours > 1 THEN "hours" ELSE "hour",
                         TRUE, minutes, minuteWord, "remaining")
             ELSE Phrase(FALSE, 0, "", TRUE, minutes, minuteWord, "remaining")

\* B (and F, G, the same code): formatRemaining(remainingMs).
formatRemaining_B(remainingMs) ==
  IF remainingMs.null \/ remainingMs.v <= 0 THEN Words("-")
  ELSE LET totalMinutes == remainingMs.v \div TicksPerMinute
       IN  Phrase(TRUE, totalMinutes \div 60, "hours",
                  TRUE, totalMinutes % 60, "minutes", "remaining")

\* C: formatTimeRemaining(end, nowZoned).
formatTimeRemaining_C(end, nowZoned) ==
  LET ms           == ToNumber(end) - nowZoned
      totalMinutes == ms \div TicksPerMinute
      hours        == totalMinutes \div 60
      minutes      == totalMinutes % 60
  IN  IF ms <= 0 THEN Words("Ended just now")
      ELSE IF hours <= 0 /\ minutes <= 0 THEN Words("Ending now")
      ELSE IF hours = 0 THEN Phrase(FALSE, 0, "", TRUE, minutes, "minutes", "remaining")
      ELSE IF minutes = 0 THEN Phrase(TRUE, hours, "hours", FALSE, 0, "", "remaining")
      ELSE Phrase(TRUE, hours, "hours", TRUE, minutes, "minutes", "remaining")

\* D: calculateRemaining(endDate, currentDate); renderSection appends
\* " remaining" to it.
calculateRemaining_D(endDate, currentDate) ==
  LET diff == ToNumber(endDate) - currentDate
  IN  IF diff <= 0 THEN Phrase(TRUE, 0, "hours", TRUE, 0, "minutes", "")
      ELSE Phrase(TRUE, diff \div (TicksPerMinute * 60), "hours",
                  TRUE, (diff % (TicksPerMinute * 60)) \div TicksPerMinute, "minutes", "")

\* E: formatRemaining(remainingMinutes).
formatRemaining_E(remainingMinutes) ==
  IF remainingMinutes.null \/ remainingMinutes.v <= 0 THEN Words("-")
  ELSE Phrase(TRUE, remainingMinutes.v \div 60, "hours",
              TRUE, remainingMinutes.v % 60, "minutes", "remaining")

\* The durations handed to the formatters: null, and every tick from two
\* minutes ago to MaxMinutes minutes ahead.
Durations ==
  {NullValue} \cup {Number(n) : n \in (-2 * TicksPerMinute)..(MaxMinutes * TicksPerMinute)}

InitFormat ==
  /\ duration \in Durations
  /\ text = <<>>
  /\ city = "portland"
  /\ browser = "portland"
  /\ now = cityLocalToUtcMs(R1.y, R1.m, R1.d, R1.h, R1.min, Offset("portland"))
  /\ variant = "none"
  /\ stage = "text"
  /\ intervals = <<>>
  /\ query = Null
  /\ result = Null
  /\ shown = Shown(Null, Null, 0)
  /\ panchangamData = Null
  /\ kalas = Null
  /\ phrase = Null
  /\ page = Null
  /\ MoreUnused

Formatted(v, p) ==
  /\ stage = "text"
  /\ variant' = v
  /\ phrase' = p
  /\ stage' = "formatted"
  /\ UNCHANGED <<text, now, city, browser, intervals, query, result, shown,
                 panchangamData, kalas, duration, page>>
  /\ UNCHANGED more

\* A: renderSection: formatRemaining(remainingMs).
Format_A == Formatted("A", formatRemaining_A(duration))

\* B: fillCategory: formatRemaining(remainingMs).
Format_B == Formatted("B", formatRemaining_B(duration))

\* C: processCity: formatTimeRemaining(tCur.end, nowZoned), the interval
\* ending `duration` after nowZoned.
Format_C ==
  LET nowZoned == getNowInZone(now, city)
      end      == IF duration.null THEN NullValue ELSE Number(nowZoned + duration.v)
  IN  Formatted("C", formatTimeRemaining_C(end, nowZoned))

\* D: renderSection: `${calculateRemaining(current.end, cityNow)} remaining`.
Format_D ==
  LET cityNow == cityWallAsLocal(now, city, browser)
      end     == IF duration.null THEN NullValue ELSE Number(cityNow + duration.v)
  IN  Formatted("D", [calculateRemaining_D(end, cityNow) EXCEPT !.words = "remaining"])

\* E: fillCategoryForCity: formatRemaining(remainingMinutes); the duration
\* counts minutes here.
Format_E == Formatted("E", formatRemaining_E(duration))

NextFormat == Format_A \/ Format_B \/ Format_C \/ Format_D \/ Format_E

SpecFormat == InitFormat /\ [][NextFormat]_vars

---------------------------------------------------------------------------
(* Steps: the page load, from the fetch to the city's column *)

\* The display elements the handlers look up, in groups:
\*   "status"  the status line of the column (status-<city>)
\*   "fields"  the current / remaining / next elements of the categories
\*   "time"    the browser-time element of the page
\*   "grid"    D's citiesGrid
\*   "footer"  D's footer
Elements == {"status", "fields", "time", "grid", "footer"}

\* What fetch(file) does: a response with resp.ok, a response without
\* (HTTP error), or a rejected promise (network error).
FetchOutcomes == {"ok", "http", "network"}

\* The column before the script runs.  fetch and elements are the
\* environment; status, fields and grid are what the script has written
\* ("unset": the element keeps the text of the HTML); console tells whether
\* console.error was called; failed is the stage that threw ("none",
\* "fetch" or "render"); escaped tells whether an exception left the
\* handler.
Page(outcome, present) ==
  [fetch    |-> outcome,
   elements |-> present,
   status   |-> "unset",
   fields   |-> "unset",
   grid     |-> "unset",
   console  |-> FALSE,
   failed   |-> "none",
   escaped  |-> FALSE]

\* el.textContent = value, behind `if (el)`.
setIfPresent(p, el, field, value) ==
  IF el \in p.elements THEN [p EXCEPT ![field] = value] ELSE p

\* A category's fillCategory (B, G) writes the three elements without a
\* test when the category has intervals: the TypeError of a missing one.
fillThrows(p, data) ==
  /\ "fields" \notin p.elements
  /\ \E c \in Followed : Len(data[c]) > 0

\* A: loadCity.  renderSection returns early when an element is missing;
\* the catch block logs to the console and writes nothing to the page.
loadCityPage_A(p) ==
  IF p.fetch # "ok"
  THEN [p EXCEPT !.failed = "fetch", !.console = TRUE]
  ELSE setIfPresent(p, "fields", "fields", "filled")

\* C: processCity.  The fields are written through getElementById(...)
\* without a test, inside the try block of the fetch; the catch block
\* writes `Error loading ${city.file}. Check console.` to the status line.
processCityPage_C(p) ==
  IF p.fetch # "ok"
  THEN setIfPresent([p EXCEPT !.failed = "fetch", !.console = TRUE],
                    "status", "status", "error")
  ELSE IF "fields" \notin p.elements
  THEN setIfPresent([p EXCEPT !.failed = "render", !.console = TRUE],
                    "status", "status", "error")
  ELSE setIfPresent([p EXCEPT !.fields = "filled"], "status", "status", "loaded")

\* B, G: the promise chain of the DOMContentLoaded handler:
\* fetch.then(ok test).then(parse, clear the status, fillCategory).catch(
\* log, "Error loading Panchangam file.").  browserTimeEl.textContent is
\* written without a test before the fetch starts.
loadChain(p, data) ==
  IF "time" \notin p.elements
  THEN [p EXCEPT !.failed = "render", !.escaped = TRUE]
  ELSE IF p.fetch # "ok"
  THEN setIfPresent([p EXCEPT !.failed = "fetch", !.console = TRUE],
                    "status", "status", "error")
  ELSE IF fillThrows(p, data)
  THEN setIfPresent([p EXCEPT !.failed = "render", !.console = TRUE],
                    "status", "status", "error")
  ELSE setIfPresent(setIfPresent(p, "status", "status", ""),
                    "fields", "fields", "filled")

\* B: the DOMContentLoaded handler with fillCategory.
loadPage_B(p, data) == loadChain(p, data)

\* G: the DOMContentLoaded handler, one city's part.
loadPage_G(p, data) == loadChain(p, data)

\* D: init's catch block: log, then citiesGrid.innerHTML = the box
\* "Error loading Panchangam data: ${error.message}", without a test.
initCatch_D(p, thrownBy) ==
  LET q == [p EXCEPT !.failed = thrownBy, !.console = TRUE]
  IN  IF "grid" \in q.elements THEN [q EXCEPT !.grid = "error"]
      ELSE [q EXCEPT !.escaped = TRUE]

\* D: init.  browserTime, citiesGrid and footer are written without a
\* test inside the try block; loadPanchangam logs and rethrows what the
\* fetch or the ok test threw.
initPage_D(p) ==
  IF "time" \notin p.elements THEN initCatch_D(p, "render")
  ELSE IF p.fetch # "ok" THEN initCatch_D(p, "fetch")
  ELSE IF "grid" \notin p.elements THEN initCatch_D(p, "render")
  ELSE IF "footer" \notin p.elements
  THEN initCatch_D([p EXCEPT !.grid = "cities"], "render")
  ELSE [p EXCEPT !.grid = "cities"]

\* Lines of a fetched file: a header, the divider and a record that holds
\* at the instant of the load.
LoadLines == {HeaderLine("Thithi"), DividerLine, Plain("Prathama", R1, R2)}

\* The page is opened in Portland on Portland's column, at the start of
\* the record; text holds the lines the server would send.
InitLoad ==
  /\ text \in UNION {[1..n -> LoadLines] : n \in 0..MaxLines}
  /\ city = "portland"
  /\ browser = "portland"
  /\ now = cityLocalToUtcMs(R1.y, R1.m, R1.d, R1.h, R1.min, Offset("portland"))
  /\ variant = "none"
  /\ stage = "text"
  /\ intervals = <<>>
  /\ query = Null
  /\ result = Null
  /\ shown = Shown(Null, Null, 0)
  /\ panchangamData = Null
  /\ kalas = Null
  /\ duration = Null
  /\ phrase = Null
  /\ page \in {Page(o, e) : o \in FetchOutcomes, e \in SUBSET Elements}
  /\ MoreUnused

\* One run of a script's load handler; the data is held when the handler
\* ran to its end.
PageLoaded(v, d, p) ==
  /\ stage = "text"
  /\ variant' = v
  /\ panchangamData' = IF p.failed = "none" THEN d ELSE Null
  /\ page' = p
  /\ stage' = "page"
  /\ UNCHANGED <<text, now, city, browser, intervals, query, result, shown,
                 kalas, duration, phrase>>
  /\ UNCHANGED more

Load_A == PageLoaded("A", loadCity_A(text, Offset(city)), loadCityPage_A(page))

Load_B ==
  PageLoaded("B", loadHome_B(text, browser), loadPage_B(page, loadHome_B(text, browser)))

Load_C == PageLoaded("C", processCity_C(text), processCityPage_C(page))

Load_D == PageLoaded("D", loadPanchangam_D(text, browser), initPage_D(page))

Load_G ==
  LET data == [c \in Followed |-> parsePanchangam_G(text, browser)[c]]
  IN  PageLoaded("G", data, loadPage_G(page, data))

NextLoad == Load_A \/ Load_B \/ Load_C \/ Load_D \/ Load_G

SpecLoad == InitLoad /\ [][NextLoad]_vars

---------------------------------------------------------------------------
(* Rendering of one category, element by element *)

\* The three elements of one category of a column (the ids end in
\* -current, -remaining and -next).
TripleElements == {"current", "remaining", "next"}

\* el.textContent = value, as a pair.
Write(el, value) == [el |-> el, value |-> value]

\* A render step so far: what the three elements show (the name or the
\* placeholder, the duration handed to the formatter or null for the
\* dash, the position of the next interval), which of them the step has
\* written, and whether it threw.
Rendering(sh, wr, threw) == [shown |-> sh, written |-> wr, threw |-> threw]

\* The elements as the HTML leaves them.
Unrendered == Rendering([current |-> Null, remaining |-> NullValue, next |-> 0], {}, FALSE)

\* One assignment to textContent.
setField(r, w) ==
  [r EXCEPT !.written = @ \cup {w.el},
            !.shown = CASE w.el = "current"   -> [@ EXCEPT !.current = w.value]
                        [] w.el = "remaining" -> [@ EXCEPT !.remaining = w.value]
                        [] w.el = "next"      -> [@ EXCEPT !.next = w.value]]

\* Assignments in the order of the code, none behind a test of its element:
\* the first missing element throws a TypeError and the rest does not run.
RECURSIVE writeUntested(_, _, _, _)
writeUntested(writes, i, present, r) ==
  IF i > Len(writes) THEN r
  ELSE IF writes[i].el \notin present THEN [r EXCEPT !.threw = TRUE]
  ELSE writeUntested(writes, i + 1, present, setField(r, writes[i]))

\* Assignments each behind `if (el)`.
RECURSIVE writeTested(_, _, _, _)
writeTested(writes, i, present, r) ==
  IF i > Len(writes) THEN r
  ELSE writeTested(writes, i + 1, present,
                   IF writes[i].el \in present THEN setField(r, writes[i]) ELSE r)

\* The three assignments of a category: current, remaining, next.
TripleOf(current, remaining, next) ==
  <<Write("current", current), Write("remaining", remaining), Write("next", next)>>

\* A: renderSection: returns when one of the three elements is missing,
\* then writes the three.
renderSectionOn_A(entries, data, nowUtcMs, present, r) ==
  IF ~(TripleElements \subseteq present) THEN r
  ELSE LET sh == renderSection_A(entries, data, nowUtcMs)
       IN  writeUntested(
             TripleOf(sh.current,
                      IF data.current = 0 THEN NullValue ELSE Number(sh.remainingMs),
                      sh.next),
             1, present, r)

\* B: fillCategory: the elements are tested in the "No data" branch only.
fillCategory_B(ivs, t, present, r) ==
  LET res == findCurrentAndNext_B(ivs, t)
  IN  IF Len(ivs) = 0
        THEN writeTested(TripleOf("No data", NullValue, 0), 1, present, r)
        ELSE writeUntested(
               TripleOf(IF res.current = 0 THEN "Not in range" ELSE ivs[res.current].name,
                        IF res.current = 0 THEN NullValue ELSE Number(res.remaining),
                        res.next),
               1, present, r)

\* C: processCity: the three assignments through getElementById(...),
\* with no test.
renderTithi_C(ivs, nowZoned, present, r) ==
  LET res == findCurrentAndNext_C(ivs, nowZoned)
  IN  writeUntested(
        TripleOf(IF res.current = 0 THEN "Not in range" ELSE ivs[res.current].name,
                 IF res.current = 0 THEN NullValue
                                    ELSE Number(ivs[res.current].end - nowZoned),
                 res.next),
        1, present, r)

\* G: fillCategory: the same code as B's, the resolver called after the
\* "No data" branch.
fillCategory_G(ivs, t, present, r) ==
  IF Len(ivs) = 0
    THEN writeTested(TripleOf("No data", NullValue, 0), 1, present, r)
    ELSE LET res == findCurrentAndNext_G(ivs, t)
         IN  writeUntested(
               TripleOf(IF res.current = 0 THEN "Not in range" ELSE ivs[res.current].name,
                        IF res.current = 0 THEN NullValue ELSE Number(res.remaining),
                        res.next),
               1, present, r)

---------------------------------------------------------------------------
(* Steps: one fetch-and-parse unit per city *)

\* The longest time, in ticks, from the start of the fetches to the last
\* response.
MaxDelay == 2

\* A city's unit: the file its URL serves, what its fetch will do, how far
\* the unit is ("idle", "pending", "done"), the instant its response
\* arrived, and the city's column: the status line and the Tithi elements.
Unit(file, outcome) ==
  [file      |-> file,
   fetch     |-> outcome,
   state     |-> "idle",
   arrived   |-> 0,
   status    |-> "unset",
   rendering |-> Unrendered]

\* A: loadCity from the response on; nowUtcMs = Date.now() is read then.
\* The column's elements are all on the page.
completeUnit_A(u, offsetMinutes, nowUtcMs) ==
  LET v == [u EXCEPT !.state = "done", !.arrived = nowUtcMs]
  IN  IF u.fetch # "ok" THEN v
      ELSE LET entries == loadCity_A(u.file, offsetMinutes)["tithi"]
           IN  [v EXCEPT !.rendering =
                  renderSectionOn_A(entries, findCurrentAndNext_A(entries, nowUtcMs),
                                    nowUtcMs, TripleElements, @)]

\* C: processCity from the response on; nowZoned was taken before the
\* fetch.
completeUnit_C(u, nowZoned, arrival) ==
  LET v == [u EXCEPT !.state = "done", !.arrived = arrival]
  IN  IF u.fetch # "ok" THEN [v EXCEPT !.status = "error"]
      ELSE [v EXCEPT !.status = "loaded",
                     !.rendering = renderTithi_C(processCity_C(u.file)["tithi"], nowZoned,
                                                 TripleElements, @)]

\* G: the promise chain of one city; nowCity was taken before the fetch.
completeUnit_G(u, nowCity, browserZone, arrival) ==
  LET v == [u EXCEPT !.state = "done", !.arrived = arrival]
  IN  IF u.fetch # "ok" THEN [v EXCEPT !.status = "error"]
      ELSE [v EXCEPT !.status = "",
                     !.rendering = fillCategory_G(parsePanchangam_G(u.file, browserZone)["tithi"],
                                                  nowCity, TripleElements, @)]

\* The element ids carry the city's id (`${cityId}-${sectionName}-current`,
\* `status-${cityId}`): a unit writes its own city's column.
settle_sharedElements(us, c, u) ==
  [d \in Cities |-> IF d = c THEN u ELSE [us[d] EXCEPT !.rendering = u.rendering]]

settle(us, c, u) == [us EXCEPT ![c] = u]

\* Files the cities' URLs serve.
UnitFiles ==
  {<<HeaderLine("Thithi"), DividerLine, Plain("Prathama", R1, R2)>>,
   <<HeaderLine("Thithi"), DividerLine, Plain("Vidhiya", R1, R3)>>}

\* The page is opened in Portland at an instant at which the clock of one
\* of the cities reads R1; every city has its file and its fetch outcome.
InitUnits ==
  /\ units \in [Cities -> {Unit(f, o) : f \in UnitFiles, o \in FetchOutcomes}]
  /\ now \in {cityLocalToUtcMs(R1.y, R1.m, R1.d, R1.h, R1.min, Offset(z)) : z \in Cities}
  /\ text = <<>>
  /\ city = "portland"
  /\ browser = "portland"
  /\ variant = "none"
  /\ stage = "text"
  /\ intervals = <<>>
  /\ query = Null
  /\ result = Null
  /\ shown = Shown(Null, Null, 0)
  /\ panchangamData = Null
  /\ kalas = Null
  /\ duration = Null
  /\ phrase = Null
  /\ page = Null
  /\ written = {}
  /\ reading = Null
  /\ converted = Null

UnitsFrame ==
  UNCHANGED <<text, city, browser, intervals, result, shown, panchangamData, kalas,
              duration, phrase, page, written, reading, converted>>

\* The handler of the page load starts one fetch for every city.
Started(v) ==
  /\ stage = "text"
  /\ variant' = v
  /\ query' = now
  /\ units' = [c \in Cities |-> [units[c] EXCEPT !.state = "pending"]]
  /\ stage' = "pending"
  /\ UNCHANGED now
  /\ UnitsFrame

\* A: cities.forEach(loadCity).
Start_A == Started("A")

\* C: main: CITY_CONFIG.forEach(processCity).
Start_C == Started("C")

\* G: CITY_IDS.forEach(cityId => ... fetch(cfg.file) ...).
Start_G == Started("G")

\* Time passes while responses are awaited.
Elapse ==
  /\ stage = "pending"
  /\ \E c \in Cities : units[c].state = "pending"
  /\ now < query + MaxDelay
  /\ now' = now + 1
  /\ UNCHANGED <<variant, stage, query, units>>
  /\ UnitsFrame

\* The response of city c arrives and the rest of its unit runs.
Completed(v, c, u) ==
  /\ stage = "pending"
  /\ variant = v
  /\ units[c].state = "pending"
  /\ units' = settle(units, c, u)
  /\ UNCHANGED <<variant, stage, query, now>>
  /\ UnitsFrame

Complete_A ==
  \E c \in Cities : Completed("A", c, completeUnit_A(units[c], Offset(c), now))

Complete_C ==
  \E c \in Cities :
    Completed("C", c, completeUnit_C(units[c], getNowInZone(query, c), now))

Complete_G ==
  \E c \in Cities :
    Completed("G", c, completeUnit_G(units[c], cityWallAsLocal(query, c, browser),
                                     browser, now))

NextUnits ==
  Start_A \/ Start_C \/ Start_G \/ Elapse \/ Complete_A \/ Complete_C \/ Complete_G

SpecUnits == InitUnits /\ [][NextUnits]_vars

---------------------------------------------------------------------------
(* Steps: the page load and the interval timers *)

\* What the page shows for Tithi once A's loadCity has run on the file at
\* instant nowUtcMs.
shownTithi_A(lines, offsetMinutes, nowUtcMs) ==
  LET entries == loadCity_A(lines, offsetMinutes)["tithi"]
  IN  renderSectionOn_A(entries, findCurrentAndNext_A(entries, nowUtcMs), nowUtcMs,
                        TripleElements, Unrendered).shown

\* The same for C's processCity, nowZoned = getNowInZone(city.timeZone).
shownTithi_C(lines, instant, timeZone) ==
  renderTithi_C(processCity_C(lines)["tithi"], getNowInZone(instant, timeZone),
                TripleElements, Unrendered).shown

\* D: renderSection('TITHI', panchangamData.tithi, nowBase, timeZone): the
\* markup's current, remaining and next items.
shownTithi_D(ivs, nowBase, cityTimeZone, browserZone) ==
  LET r  == findCurrentAndNext_D(ivs, nowBase)
      sh == renderSection_D(ivs, nowBase, cityTimeZone, browserZone)
  IN  [current   |-> sh.current,
       remaining |-> IF r.current = 0 THEN NullValue ELSE Number(sh.remainingMs),
       next      |-> sh.next]

\* Files the server may hold.
TimerFiles ==
  {<<HeaderLine("Thithi"), DividerLine, Plain("Prathama", R1, R2)>>,
   <<HeaderLine("Thithi"), DividerLine, Plain("Prathama", R1, R2), Plain("Vidhiya", R2, R3)>>,
   <<HeaderLine("Thithi"), DividerLine, Plain("Vidhiya", R1, R3)>>}

\* The last instant the timers are followed to.
TimerEnd ==
  cityLocalToUtcMs(R2.y, R2.m, R2.d, R2.h, R2.min, Offset("portland")) + TicksPerMinute

\* The page is about to be opened in Portland, around R1 or R2; text is
\* the file the server holds.
InitTimer ==
  /\ text \in TimerFiles
  /\ now \in {t \in NowInstants({"portland"}) : t < TimerEnd}
  /\ city = "portland"
  /\ browser = "portland"
  /\ variant = "none"
  /\ stage = "text"
  /\ intervals = <<>>
  /\ query = Null
  /\ result = Null
  /\ shown = Unrendered.shown
  /\ panchangamData = Null
  /\ kalas = Null
  /\ duration = Null
  /\ phrase = Null
  /\ page = Null
  /\ MoreUnused

TimerFrame ==
  UNCHANGED <<city, browser, result, panchangamData, kalas, duration, phrase, page,
              written, units, reading, converted>>

\* The page load: the file is fetched, parsed, resolved at the instant of
\* the load and shown.  query is the instant of the resolve.
Opened(v, ivs, sh) ==
  /\ stage = "text"
  /\ variant' = v
  /\ intervals' = ivs
  /\ query' = now
  /\ shown' = sh
  /\ stage' = "open"
  /\ UNCHANGED <<text, now>>
  /\ TimerFrame

\* A: DOMContentLoaded: cities.forEach(loadCity).
Open_A ==
  Opened("A", loadCity_A(text, Offset(city))["tithi"], shownTithi_A(text, Offset(city), now))

\* C: main: processCity(city).
Open_C == Opened("C", processCity_C(text)["tithi"], shownTithi_C(text, now, city))

\* D: init: panchangamData = await loadPanchangam(baseCity), renderCity.
Open_D ==
  LET ivs == loadPanchangam_D(text, browser)["tithi"]
  IN  Opened("D", ivs, shownTithi_D(ivs, now, city, browser))

\* A callback of setInterval, `step` ticks after the last one; the server
\* may hold another file by then.
Ticked(v, step, ivs, q, sh) ==
  /\ stage \in {"open", "ticked"}
  /\ variant = v
  /\ now + step <= TimerEnd
  /\ now' = now + step
  /\ text' \in TimerFiles
  /\ intervals' = ivs
  /\ query' = q
  /\ shown' = sh
  /\ stage' = "ticked"
  /\ UNCHANGED variant
  /\ TimerFrame

\* A: setInterval(updateBrowserTime, 60 * 1000): the browser-time element
\* only.
Tick_A == Ticked("A", TicksPerMinute, intervals, query, shown)

\* C: setInterval(updateBrowserTime, 1000): the browser-time element only
\* (one step of the model's clock holds several callbacks).
Tick_C == Ticked("C", 1, intervals, query, shown)

\* D: setInterval(..., 60000): renderCity on the panchangamData of the
\* page load, with nowBase = new Date().
Tick_D ==
  Ticked("D", TicksPerMinute, intervals, now + TicksPerMinute,
         shownTithi_D(intervals, now + TicksPerMinute, city, browser))

NextTimer == Open_A \/ Open_C \/ Open_D \/ Tick_A \/ Tick_C \/ Tick_D

SpecTimer == InitTimer /\ [][NextTimer]_vars

---------------------------------------------------------------------------
(* Steps: parse, resolve and fill the three elements of Tithi *)

\* The page is opened in Portland on Portland's column; page tells which
\* of the three Tithi elements the HTML has.
InitFields ==
  /\ text \in TextsOver(ChainLines)
  /\ city = "portland"
  /\ browser = "portland"
  /\ now \in NowInstants({"portland"})
  /\ variant = "none"
  /\ stage = "text"
  /\ intervals = <<>>
  /\ query = Null
  /\ result = Null
  /\ shown = Unrendered.shown
  /\ panchangamData = Null
  /\ kalas = Null
  /\ duration = Null
  /\ phrase = Null
  /\ page \in {Page("ok", e) : e \in SUBSET TripleElements}
  /\ MoreUnused

\* The render step of a category: what the elements show after it, which
\* of them it wrote, and whether it ended in a TypeError.
Filled(v, r) ==
  /\ stage = "resolved"
  /\ variant = v
  /\ shown' = r.shown
  /\ written' = r.written
  /\ page' = [page EXCEPT !.failed = IF r.threw THEN "render" ELSE "none"]
  /\ stage' = "rendered"
  /\ UNCHANGED <<text, now, city, browser, variant, intervals, query, result,
                 panchangamData, kalas, duration, phrase, units, reading, converted>>

\* A: renderSection(city.id, "tithi", findCurrentAndNext(...), ...).
Fill_A ==
  Filled("A", renderSectionOn_A(intervals, result, query, page.elements,
                                Rendering(shown, written, FALSE)))

\* B: fillCategory(id, "tithi", data, now).
Fill_B ==
  Filled("B", fillCategory_B(intervals, query, page.elements,
                             Rendering(shown, written, FALSE)))

\* C: processCity: the Tithi block.
Fill_C ==
  Filled("C", renderTithi_C(intervals, query, page.elements,
                            Rendering(shown, written, FALSE)))

NextFields ==
  \/ Parse_A \/ Parse_B \/ Parse_C
  \/ Resolve_A \/ Resolve_B \/ Resolve_C
  \/ Fill_A \/ Fill_B \/ Fill_C

SpecFields == InitFields /\ [][NextFields]_vars

---------------------------------------------------------------------------
(* Steps: the columns of the cities at one instant *)

\* F: parsePanchangam on the Portland file.
Parse_F == Parsed("F", parsePanchangam_F(fileOf(text), browser)["tithi"])

\* F: nowUtc = new Date(), "one global instant for all calculations".
Resolve_F == ResolvedBy("F", now, findCurrentAndNext_F(intervals, now))

\* The page is opened in any of the three zones, on any city's column, at
\* an instant at which the clock of one of the cities shows a reading.
InitCities == InitWith(ChainLines, Cities, Cities, Cities)

NextCities ==
  \/ Parse_A \/ Parse_B \/ Parse_E \/ Parse_F
  \/ Resolve_A \/ Resolve_B \/ Resolve_E \/ Resolve_F

SpecCities == InitCities /\ [][NextCities]_vars

\* The resolvers of A, D and F on Portland's column.
NextResolvers ==
  \/ Parse_A \/ Parse_D \/ Parse_F
  \/ Resolve_A \/ Resolve_D \/ Resolve_F

SpecResolvers ==
  InitWith(ChainLines, {"portland"}, {"portland"}, {"portland"}) /\ [][NextResolvers]_vars

---------------------------------------------------------------------------
(* Steps: parsing the same text a second time *)

\* Two calls of a parser on one text: what the caller of the first call
\* holds after the second call, and what the second call returned.
Twice(first, second) == [first |-> first, second |-> second]

\* A with one `entries` array outside the function instead of the
\* `const entries = []` of every call: the second call pushes onto the
\* array the first call returned.
parseTwice_A_sharedEntries(sectionText, offsetMinutes) ==
  LET entries == parseIntervals_A(sectionText, offsetMinutes)
  IN  Twice(entries \o entries, entries \o entries)

\* A: parseIntervals called twice; each call fills an array of its own and
\* the regular expression is a literal without the g flag.
parseTwice_A(sectionText, offsetMinutes) ==
  Twice(parseIntervals_A(sectionText, offsetMinutes),
        parseIntervals_A(sectionText, offsetMinutes))

\* E: parsePanchangam called twice; each call builds a `data` object of
\* its own.
parseTwice_E(lines) == Twice(parsePanchangam_E(lines), parsePanchangam_E(lines))

\* The section, about to be parsed in Portland.
InitTwice ==
  /\ text \in TextsOver(ParseLines)
  /\ city = "portland"
  /\ browser = "portland"
  /\ now = cityLocalToUtcMs(R1.y, R1.m, R1.d, R1.h, R1.min, Offset("portland"))
  /\ variant = "none"
  /\ stage = "text"
  /\ intervals = <<>>
  /\ query = Null
  /\ result = Null
  /\ shown = Shown(Null, Null, 0)
  /\ panchangamData = Null
  /\ kalas = Null
  /\ duration = Null
  /\ phrase = Null
  /\ page = Null
  /\ MoreUnused

\* The second call: intervals is what the first call returned, as it is
\* now; panchangamData holds what the second call returned.
Reparsed(v, first, second) ==
  /\ stage = "parsed"
  /\ variant = v
  /\ intervals' = first
  /\ panchangamData' = [tithi |-> second]
  /\ stage' = "reparsed"
  /\ UNCHANGED <<text, now, city, browser, variant, query, result, shown, kalas,
                 duration, phrase, page>>
  /\ UNCHANGED more

Reparse_A ==
  LET r == parseTwice_A(text, Offset(city))
  IN  Reparsed("A", r.first, r.second)

Reparse_E ==
  LET r == parseTwice_E(fileOf(text))
  IN  Reparsed("E", r.first["tithi"], r.second["tithi"])

NextTwice == Parse_A \/ Parse_E \/ Reparse_A \/ Reparse_E

SpecTwice == InitTwice /\ [][NextTwice]_vars

---------------------------------------------------------------------------
(* Steps: parsePanchangam on a file with inauspicious sections *)

\* Lines of a file: headers of two periodic and of two inauspicious
\* sections, a record of a periodic and one of an inauspicious section.
ScanLines ==
  {HeaderLine("Thithi"), HeaderLine("Karanam"),
   HeaderLine("Rahukala"), HeaderLine("Varjyam"),
   Plain("Prathama", R1, R2), Plain("Varjyam", R2, R3)}

\* The file was fetched in Portland; text holds the lines of the whole
\* file.
InitScan ==
  /\ text \in UNION {[1..n -> ScanLines] : n \in 0..MaxFileLines}
  /\ city = "portland"
  /\ browser = "portland"
  /\ now = cityLocalToUtcMs(R1.y, R1.m, R1.d, R1.h, R1.min, Offset("portland"))
  /\ variant = "none"
  /\ stage = "text"
  /\ intervals = <<>>
  /\ query = Null
  /\ result = Null
  /\ shown = Shown(Null, Null, 0)
  /\ panchangamData = Null
  /\ kalas = Null
  /\ duration = Null
  /\ phrase = Null
  /\ page = Null
  /\ MoreUnused

\* B: data = parsePanchangam(text).
Scan_B == Loaded("B", parsePanchangam_B(text, browser))

\* E: data = parsePanchangam(text).
Scan_E == Loaded("E", parsePanchangam_E(text))

\* F: data = parsePanchangam(text).
Scan_F == Loaded("F", parsePanchangam_F(text, browser))

NextScan == Scan_B \/ Scan_E \/ Scan_F

SpecScan == InitScan /\ [][NextScan]_vars

---------------------------------------------------------------------------
(* Steps: the clock conversions on their own *)

\* A with the offset taken off again instead of added.
formatCityDateTime_minusOffset(utcMs, offsetMinutes) ==
  LET cityMs == utcMs - offsetMinutes * TicksPerMinute
      d      == PartsOfMinutes(cityMs \div TicksPerMinute)
  IN  Rd(d.y, d.m, d.d, d.h, d.min)

\* A: formatCityDateTime(utcMs, offsetMinutes): the fields of
\* "YYYY/MM/DD HH:MM" in the city (pad2 writes each with two digits).
formatCityDateTime(utcMs, offsetMinutes) ==
  LET cityMs == utcMs + offsetMinutes * TicksPerMinute
      d      == PartsOfMinutes(cityMs \div TicksPerMinute)
  IN  Rd(d.y, d.m, d.d, d.h, d.min)

\* Wall-clock readings at the ends of months, of February in a leap year
\* and of a year, and the readings of the almanac texts.
ClockReadings ==
  {Rd(2024, 2, 28, 23, 59), Rd(2024, 2, 29, 0, 0), Rd(2024, 2, 29, 23, 59),
   Rd(2024, 3, 1, 0, 0), Rd(2025, 1, 31, 0, 0), Rd(2025, 2, 1, 0, 0),
   Rd(2025, 10, 31, 12, 0), R1, R2, R3,
   Rd(2025, 12, 31, 23, 59), Rd(2026, 1, 1, 0, 0)}

\* Three readings, the start and the end of an interval and a now, and
\* the city whose offset the conversions use.
InitClock ==
  /\ reading \in [a : ClockReadings, b : ClockReadings, n : ClockReadings]
  /\ city \in Cities
  /\ converted = Null
  /\ text = <<>>
  /\ browser = "portland"
  /\ now = cityLocalToUtcMs(R1.y, R1.m, R1.d, R1.h, R1.min, Offset("portland"))
  /\ variant = "none"
  /\ stage = "text"
  /\ intervals = <<>>
  /\ query = Null
  /\ result = Null
  /\ shown = Shown(Null, Null, 0)
  /\ panchangamData = Null
  /\ kalas = Null
  /\ duration = Null
  /\ phrase = Null
  /\ page = Null
  /\ written = {}
  /\ units = Null

ClockFrame ==
  UNCHANGED <<text, now, city, browser, shown, panchangamData, kalas, duration,
              phrase, page, written, units, reading>>

\* E: the interval reading.a - reading.b as parsePanchangam stores it, the
\* now of reading.n as the handler packs it, and findCurrentAndNext.
NaiveResolve ==
  LET a  == reading.a
      b  == reading.b
      n  == reading.n
      iv == [name |-> "Prathama", startRd |-> a, endRd |-> b,
             start |-> toNaiveMinutes(a.y, a.m, a.d, a.h, a.min),
             end   |-> toNaiveMinutes(b.y, b.m, b.d, b.h, b.min)]
      nowMin == toNaiveMinutes(n.y, n.m, n.d, n.h, n.min)
  IN  /\ stage = "text"
      /\ variant' = "E"
      /\ intervals' = <<iv>>
      /\ query' = nowMin
      /\ result' = findCurrentAndNext_E(<<iv>>, nowMin)
      /\ converted' = [a |-> iv.start, b |-> iv.end, n |-> nowMin]
      /\ stage' = "naive"
      /\ ClockFrame

\* A: cityLocalToUtcMs of reading.a with the city's offset.
ToUtc ==
  /\ stage = "text"
  /\ variant' = "A"
  /\ converted' = [utcMs |-> cityLocalToUtcMs(reading.a.y, reading.a.m, reading.a.d,
                                               reading.a.h, reading.a.min, Offset(city))]
  /\ stage' = "utc"
  /\ UNCHANGED <<intervals, query, result>>
  /\ ClockFrame

\* A: formatCityDateTime and getCityTodayString of that instant with the
\* same offset.
FormatCity ==
  /\ stage = "utc"
  /\ converted' = [utcMs    |-> converted.utcMs,
                   dateTime |-> formatCityDateTime(converted.utcMs, Offset(city)),
                   today    |-> getCityTodayString(converted.utcMs, Offset(city))]
  /\ stage' = "city"
  /\ UNCHANGED <<variant, intervals, query, result>>
  /\ ClockFrame

NextClock == NaiveResolve \/ ToUtc \/ FormatCity

SpecClock == InitClock /\ [][NextClock]_vars

---------------------------------------------------------------------------
(* Vocabulary of the properties *)

\* The positions of the intervals that contain t, half-open.
Containing(ivs, t) == {i \in 1..Len(ivs) : ivs[i].start <= t /\ t < ivs[i].end}

\* The positions of the intervals that start after t.
StartingAfter(ivs, t) == {i \in 1..Len(ivs) : ivs[i].start > t}

\* The Interval invariant of the data model: start < end for every
\* interval, and each ends no later than the following one starts.
Chronological(ivs) ==
  /\ \A i \in 1..Len(ivs) : ivs[i].start < ivs[i].end
  /\ \A i \in 1..(Len(ivs) - 1) : ivs[i].end <= ivs[i + 1].start

HasResolved == stage \in {"resolved", "rendered"}

HasParsed == stage \in {"parsed", "resolved", "rendered"}

\* The text with the ":SS" removed from every time.
WithoutSeconds(t) == [i \in 1..Len(t) |-> [t[i] EXCEPT !.ss = FALSE, !.es = FALSE]]

\* The record grammar of the specification, after its skips: a line
\* "<name>: <date> <time> to <date> <time>", seconds or not, that does not
\* begin with "Next ".
IsRecordLine(l) == l.kind = "record" /\ ~startsWithNext(l)

---------------------------------------------------------------------------
(* Properties *)

\* C1: for every interval sequence and every now, findCurrentAndNext (A, D,
\* G) returns as current the first interval in sequence order with
\* start <= now < end, and as next the element after it, or null when it
\* is the last.
C1_CurrentIsFirstContaining ==
  (HasResolved /\ variant \in {"A", "D", "G"} /\ Containing(intervals, query) # {})
    => LET i == FirstOf(Containing(intervals, query)) IN
         /\ result.current = i
         /\ result.next = (IF i < Len(intervals) THEN i + 1 ELSE 0)

\* C2: whenever no interval contains now, findCurrentAndNext (B, D, E)
\* returns current = null and remaining = null; an interval that does not
\* contain now is never the current one.
C2_NoCurrentOutsideIntervals ==
  (HasResolved /\ variant \in {"B", "D", "E"})
    => /\ Containing(intervals, query) = {}
            => (result.current = 0 /\ result.remaining = Null)
       /\ result.current # 0 => result.current \in Containing(intervals, query)

\* C3: whenever no interval contains now, findCurrentAndNext (C, D) returns
\* as next the first interval with start > now, and null only when there
\* is none; before the first interval: current = null, next = the first.
C3_NextIsFirstFuture ==
  (HasResolved /\ variant \in {"C", "D"} /\ Containing(intervals, query) = {})
    => /\ result.current = 0
       /\ result.next = (IF StartingAfter(intervals, query) = {} THEN 0
                         ELSE FirstOf(StartingAfter(intervals, query)))

C5_RemainingIsTimeToEnd ==
  /\ (stage = "rendered" /\ variant \in {"A", "D"} /\ shown.current # Null /\ result.current # 0)
       => LET iv == intervals[result.current] IN
            /\ shown.remainingMs = iv.end - query
            /\ 0 < shown.remainingMs
            /\ shown.remainingMs <= iv.end - iv.start
  /\ (HasResolved /\ variant = "E" /\ result.current # 0)
       => LET iv == intervals[result.current]
              trueEnd == cityLocalToUtcMs(iv.endRd.y, iv.endRd.m, iv.endRd.d,
                                          iv.endRd.h, iv.endRd.min, Offset("portland"))
              left == trueEnd - now
          IN  /\ result.remaining = iv.end - query
              /\ 0 < result.remaining
              /\ result.remaining <= iv.end - iv.start
              /\ left <= result.remaining * TicksPerMinute
              /\ result.remaining * TicksPerMinute < left + TicksPerMinute

\* C6: for an empty interval sequence and any now, findCurrentAndNext (B, D)
\* returns current = null, next = null, remaining = null, and does not throw.
C6_EmptySequenceIsNoData ==
  (HasResolved /\ variant \in {"B", "D"} /\ Len(intervals) = 0)
    => result = [current |-> 0, next |-> 0, remaining |-> Null, threw |-> FALSE]

\* C6's case: D has resolved an empty sequence.
C6_Witness ==
  /\ HasResolved
  /\ variant = "D"
  /\ Len(intervals) = 0
  /\ result.current = 0
  /\ result.next = 0

\* C7: the parsers (A: parseIntervals, C: getIntervalsFromSection, D:
\* parseSection) skip every line that begins with "Next ", even one that
\* has the shape of a record: no interval of the output is named
\* "Next ...".
C7_NextLinesYieldNothing ==
  (HasParsed /\ variant \in {"A", "C", "D"})
    => \A i \in 1..Len(intervals) : intervals[i].name \notin NextNames

\* C8: the parsers (A: parseIntervals, C: parseIntervalLine, G:
\* parsePanchangam) accept a record whose times carry ":SS" and produce the
\* interval of the same line without the seconds.
C8_SecondsAcceptedAndDiscarded ==
  (HasParsed /\ variant \in {"A", "C", "G"})
    => /\ variant = "A" => intervals = parseIntervals_A(WithoutSeconds(text), Offset(city))
       /\ variant = "C" => intervals = getIntervalsFromSection_C(WithoutSeconds(text))
       /\ variant = "G" =>
            intervals = parsePanchangam_G(fileOf(WithoutSeconds(text)), browser)["tithi"]

\* C9: the output of the parsers (A: parseIntervals, C:
\* getIntervalsFromSection) is exactly the subsequence of the section's
\* lines that match the record grammar, in textual order: one interval for
\* each such line, whatever malformed lines lie between them.
C9_OutputIsTheRecordLines ==
  (HasParsed /\ variant \in {"A", "C"})
    => LET recs == SelectSeq(text, IsRecordLine) IN
         /\ Len(intervals) = Len(recs)
         /\ \A i \in 1..Len(recs) :
              /\ intervals[i].name = recs[i].name
              /\ variant = "A" =>
                   /\ intervals[i].start = cityLocalToUtcMs(recs[i].s.y, recs[i].s.m,
                        recs[i].s.d, recs[i].s.h, recs[i].s.min, Offset(city))
                   /\ intervals[i].end = cityLocalToUtcMs(recs[i].e.y, recs[i].e.m,
                        recs[i].e.d, recs[i].e.h, recs[i].e.min, Offset(city))
              /\ variant = "C" =>
                   /\ intervals[i].start = makeZonedDate(recs[i].s.y, recs[i].s.m,
                        recs[i].s.d, recs[i].s.h, recs[i].s.min)
                   /\ intervals[i].end = makeZonedDate(recs[i].e.y, recs[i].e.m,
                        recs[i].e.d, recs[i].e.h, recs[i].e.min)

\* C10: every parsed interval sequence (A: parseIntervals, D: parseSection)
\* has start < end for every interval and intervals[i].end <=
\* intervals[i+1].start for every i.
C10_ParsedSequenceIsChronological ==
  (HasParsed /\ variant \in {"A", "D"}) => Chronological(intervals)

\* The positions of the header lines of a section, whatever their case.
HeadersOf(file, words) ==
  {i \in 1..Len(file) : isHeader(file[i]) /\ lowerCase(file[i].name) \in words}

\* The position of the first header line after position h, or one past the
\* end of the file.
NextHeaderAfter(file, h) ==
  LET later == {j \in (h + 1)..Len(file) : isHeader(file[j])}
  IN  IF later = {} THEN Len(file) + 1 ELSE FirstIndex(later)

\* What the script that ran computes from a file.
LoadedFrom(file) ==
  CASE variant = "A" -> loadCity_A(file, Offset(city))
    [] variant = "B" -> loadHome_B(file, browser)
    [] variant = "C" -> processCity_C(file)
    [] variant = "D" -> loadPanchangam_D(file, browser)

\* C11: what the section extraction (A, C: extractSection; D: parseSection)
\* yields for the Thithi section stops before the next section header: in
\* a file with one Thithi header, the lines from the next header on play
\* no part in the result, blank line before that header or not.
C11_SectionEndsAtNextHeader ==
  (stage = "loaded" /\ variant \in {"A", "C", "D"}
     /\ Cardinality(HeadersOf(text, {"thithi"})) = 1)
    => LET h == FirstIndex(HeadersOf(text, {"thithi"}))
           n == NextHeaderAfter(text, h)
       IN  panchangamData["tithi"] = LoadedFrom(SubSeq(text, 1, n - 1))["tithi"]

\* A file that is one Thithi section and nothing else: the header, in any
\* case, then the divider or not, then one record line or more.
OneThithiSection(file) ==
  /\ Len(file) >= 2
  /\ isHeader(file[1]) /\ lowerCase(file[1].name) = "thithi"
  /\ \A i \in 2..Len(file) :
        file[i].kind = "record" \/ (i = 2 /\ file[i].kind = "divider")
  /\ file[Len(file)].kind = "record"

\* C12: the section extraction (A, C: extractSection; D: parseSection)
\* finds the header in any letter case and with or without the divider:
\* from a file that is one Thithi section, the header written in any case
\* and followed by a line of '=' or directly by the records, it yields
\* the section's record lines.
C12_HeaderAnyCaseAnyDivider ==
  (stage = "loaded" /\ variant \in {"A", "C", "D"} /\ OneThithiSection(text))
    => LET records == SelectSeq(text, LAMBDA l : l.kind = "record")
       IN  panchangamData["tithi"] =
             CASE variant = "A" -> parseIntervals_A(records, Offset(city))
               [] variant = "C" -> getIntervalsFromSection_C(records)
               [] variant = "D" -> parseSection_D(fileOf(records), "Thithi", browser)

\* A file that is one Nakshatra section under the header "Nakshatra
\* details:": the header, the divider, then one record line or more.
OneNakshatraSection(file) ==
  /\ Len(file) >= 3
  /\ isHeader(file[1]) /\ file[1].name = "Nakshatra"
  /\ file[2].kind = "divider"
  /\ \A i \in 3..Len(file) : file[i].kind = "record"

\* C13: the section lookup (D: parseSection; A: loadCity; B:
\* parsePanchangam) accepts the label variants of a category: a file whose
\* header reads "Nakshatra details:" instead of "Nakshatram details:"
\* yields the Nakshatra category's intervals, those of the record lines
\* under that header.
C13_NakshatraLabelVariant ==
  (stage = "loaded" /\ variant \in {"A", "B", "D"} /\ OneNakshatraSection(text))
    => LET records == SubSeq(text, 3, Len(text))
       IN  panchangamData["nakshatra"] =
             CASE variant = "A" -> parseIntervals_A(records, Offset(city))
               [] variant = "B" -> parsePanchangam_B(fileOf(records), browser)["tithi"]
               [] variant = "D" -> parseSection_D(fileOf(records), "Thithi", browser)

CivilDate(instant, c) ==
  LET p == getLocalParts(instant, c) IN [y |-> p.y, m |-> p.m, d |-> p.d]

\* The window as the page writes it, from an interval of instants.
WindowOf(iv, c) ==
  LET a == getLocalParts(iv.start, c)
      b == getLocalParts(iv.end, c)
  IN  [startHour |-> a.h, startMin |-> a.min, endHour |-> b.h, endMin |-> b.min]

C16_WindowsAreListed ==
  (stage = "kalas" /\ variant \in {"A", "D"})
    => /\ kalas.view \in {"windows", "none"}
       /\ kalas.block.current = Null
       /\ kalas.block.next = 0

\* C17: a positive remaining duration (A, B: formatRemaining; C:
\* formatTimeRemaining) is rendered as "<H> hours <M> minutes remaining":
\* M is in 0..59 and H * 60 + M is the number of whole minutes remaining;
\* the hour clause is there exactly when H is not zero, and the figures
\* end with "remaining" (90 minutes: H = 1, M = 30).
C17_PositiveDurationFigure ==
  (stage = "formatted" /\ variant \in {"A", "B", "C"} /\ ~duration.null /\ duration.v > 0)
    => LET whole == duration.v \div TicksPerMinute IN
         /\ phrase.words = "remaining"
         /\ phrase.minutes \in 0..59
         /\ phrase.hours * 60 + phrase.minutes = whole
         /\ phrase.hourClause <=> (whole \div 60 # 0)
         /\ phrase.minuteClause \/ phrase.minutes = 0

\* C18: a remaining duration that is zero, negative or null (A, E:
\* formatRemaining; D: calculateRemaining) is rendered as one fixed
\* sentinel, the same for all of them, that is no hours / minutes figure.
C18_NonPositiveSentinel ==
  (stage = "formatted" /\ variant \in {"A", "D", "E"} /\ (duration.null \/ duration.v <= 0))
    => /\ ~phrase.hourClause
       /\ ~phrase.minuteClause
       /\ variant = "A" => phrase = formatRemaining_A(Number(0))
       /\ variant = "E" => phrase = formatRemaining_E(Number(0))
       /\ variant = "D" => phrase.words = "remaining"

\* The column tells that the source could not be loaded: the error text
\* of the status line, or D's error box in the grid.
SourceUnavailableShown == page.status = "error" \/ page.grid = "error"

\* C19: when the fetch of a city's file fails (a network error or a
\* response that is not OK) and the column has its status line, the
\* handlers of A, C and G leave the column with the status that tells the
\* source is unavailable.
C19_FetchFailureHasStatus ==
  (/\ stage = "page"
   /\ variant \in {"A", "C", "G"}
   /\ page.failed = "fetch"
   /\ "status" \in page.elements)
    => page.status = "error"

\* C20: for every file text, fetch outcome and set of present display
\* elements, no exception leaves the load handler, and a failure of the
\* rendering is not shown as a failure to load the source.
C20_NoEscapeNoMisreport ==
  stage = "page" =>
    /\ ~page.escaped
    /\ (page.failed = "render" => ~SourceUnavailableShown)

\* What the unit of city c shows when it runs with no other unit: its
\* file, its fetch outcome and the instant of its response being the same.
AloneUnit(c) ==
  LET u == [units[c] EXCEPT !.state = "pending", !.arrived = 0, !.status = "unset",
                            !.rendering = Unrendered]
      t == units[c].arrived
  IN  CASE variant = "A" -> completeUnit_A(u, Offset(c), t)
        [] variant = "C" -> completeUnit_C(u, getNowInZone(query, c), t)
        [] variant = "G" -> completeUnit_G(u, cityWallAsLocal(query, c, browser), browser, t)

FullPipelineShown ==
  CASE variant = "A" -> shownTithi_A(text, Offset(city), now)
    [] variant = "C" -> shownTithi_C(text, now, city)
    [] variant = "D" -> shownTithi_D(loadPanchangam_D(text, browser)["tithi"], now, city, browser)

\* C22: after every tick of the periodic timer (A: the DOMContentLoaded
\* handler's setInterval, C: main's, D: init's) the page shows what a full
\* fetch, parse and resolve at the tick's instant yields: the values were
\* resolved at that instant, from a parse of the file the server holds
\* then.
C22_TickRerunsThePipeline ==
  (stage = "ticked" /\ variant \in {"A", "C", "D"})
    => /\ query = now
       /\ shown = FullPipelineShown

\* C23: after a render step of a category (A: renderSection, B:
\* fillCategory, C: processCity), also one that stopped on a missing
\* element, the elements of the category that are on the page were either
\* all written from the step's resolve result or none of them was.
C23_NoTornTriple ==
  (stage = "rendered" /\ variant \in {"A", "B", "C"})
    => (written = {} \/ written = page.elements)

\* What the script resolves for the column of city c at the instant `now`,
\* from the intervals of the shared file.
ResolvedFor(c) ==
  CASE variant = "B" -> findCurrentAndNext_B(intervals, now)
    [] variant = "F" -> findCurrentAndNext_F(intervals, now)
    [] variant = "E" ->
         LET parts == getLocalParts(now, c)
         IN  findCurrentAndNext_E(intervals,
               toNaiveMinutes(parts.y, parts.m, parts.d, parts.h, parts.min))

\* C24: the scripts that show one almanac file on every city's column (B,
\* E, F) resolve, at one physical instant, the same current interval and
\* the same next interval for every city.
C24_SharedFileSameIntervals ==
  (HasResolved /\ variant \in {"B", "E", "F"})
    => \A c \in Cities :
         /\ ResolvedFor(c).current = result.current
         /\ ResolvedFor(c).next = result.next

\* The reference city of the file the script reads: the column's city in
\* A, the home city (the browser's) in B, Portland in F.
ReferenceCity ==
  CASE variant = "A" -> city
    [] variant = "B" -> browser
    [] variant = "F" -> "portland"

\* The physical instant at which the clock of city c shows reading r.
InstantOf(r, c) == cityLocalToUtcMs(r.y, r.m, r.d, r.h, r.min, Offset(c))

\* The records of the text are in chronological order on the wall clock.
WallChronological(t) ==
  /\ \A i \in 1..Len(t) :
       DateUTC(t[i].s.y, t[i].s.m, t[i].s.d, t[i].s.h, t[i].s.min)
         < DateUTC(t[i].e.y, t[i].e.m, t[i].e.d, t[i].e.h, t[i].e.min)
  /\ \A i \in 1..(Len(t) - 1) :
       DateUTC(t[i].e.y, t[i].e.m, t[i].e.d, t[i].e.h, t[i].e.min)
         <= DateUTC(t[i + 1].s.y, t[i + 1].s.m, t[i + 1].s.d, t[i + 1].s.h, t[i + 1].s.min)

\* C25: when the file records an interval that starts at wall-clock time T
\* of its reference city, then at the physical instant at which that
\* city's clock reads T the resolver (A, B, F) reports that interval as
\* current, in whatever zone the browser is.
C25_CommonBasis ==
  (HasResolved /\ variant \in {"A", "B", "F"} /\ WallChronological(text))
    => \A i \in 1..Len(text) :
         now = InstantOf(text[i].s, ReferenceCity) => result.current = i

\* C28: for a sequence in ascending order without overlaps (start < end,
\* each interval ending no later than the following one starts) and every
\* now, a next that findCurrentAndNext (A, F, D) returns is the interval
\* with the smallest start after now, and is not the current one.
C28_NextIsSmallestFutureStart ==
  (HasResolved /\ variant \in {"A", "D", "F"} /\ Chronological(intervals)
     /\ result.next # 0)
    => /\ intervals[result.next].start > query
       /\ \A j \in StartingAfter(intervals, query) :
            intervals[result.next].start <= intervals[j].start
       /\ result.next # result.current

\* C28's case: F has resolved a now before two intervals of a sequence in
\* order and returned the first of them as next.
C28_Witness ==
  /\ HasResolved
  /\ variant = "F"
  /\ Chronological(intervals)
  /\ Cardinality(StartingAfter(intervals, query)) >= 2
  /\ result.current = 0
  /\ result.next = 1

OwnRecords(file, c) ==
  {i \in 1..Len(file) :
     /\ file[i].kind = "record"
     /\ \E h \in 1..(i - 1) :
          /\ isHeader(file[h])
          /\ sectionOfHeader(file[h]) = c
          /\ \A k \in (h + 1)..(i - 1) : ~isHeader(file[k])}

\* C27: parsePanchangam (B, E, F) gives every periodic category the
\* records between its own header and the next section header only: a
\* record under a "Rahukala details:" or "Varjyam details:" header goes to
\* no periodic category.
C27_PeriodicSectionsEndAtAnyHeader ==
  (stage = "loaded" /\ variant \in {"B", "E", "F"})
    => \A c \in Categories :
         Len(panchangamData[c]) = Cardinality(OwnRecords(text, c))

\* The true time of a wall-clock reading, in minutes.
TrueMinutes(r) == DateUTC(r.y, r.m, r.d, r.h, r.min)

\* C29: toNaiveMinutes keeps the order of date-times: reading a is before
\* reading b exactly when toNaiveMinutes(a) < toNaiveMinutes(b); so E's
\* findCurrentAndNext, comparing naive minutes, takes the interval a - b
\* as current exactly when a <= n < b in true time.
C29_NaiveMinutesKeepOrder ==
  stage = "naive"
    => /\ (TrueMinutes(reading.a) < TrueMinutes(reading.b)) <=> (converted.a < converted.b)
       /\ (TrueMinutes(reading.a) = TrueMinutes(reading.b)) <=> (converted.a = converted.b)
       /\ (result.current = 1)
            <=> (/\ TrueMinutes(reading.a) <= TrueMinutes(reading.n)
                 /\ TrueMinutes(reading.n) < TrueMinutes(reading.b))

\* C29's case: an interval from the last day of a month to the first day
\* of the next, and a now inside it, which the resolver takes as current.
C29_Witness ==
  /\ stage = "naive"
  /\ reading.a = Rd(2025, 1, 31, 0, 0)
  /\ reading.b = Rd(2025, 12, 31, 23, 59)
  /\ reading.n = Rd(2025, 2, 1, 0, 0)
  /\ result.current = 1

\* C30: formatCityDateTime(cityLocalToUtcMs(Y, M, D, h, m, offset), offset)
\* is the reading Y/M/D h:m again, and getCityTodayString of that instant
\* with the same offset is its Y/M/D.
C30_FixedOffsetRoundTrip ==
  stage = "city"
    => /\ converted.dateTime = reading.a
       /\ converted.today = [y |-> reading.a.y, m |-> reading.a.m, d |-> reading.a.d]

\* C30's case: the first minute of a year in Chennai, an instant of the
\* year before in UTC, has made the round trip.
C30_Witness ==
  /\ stage = "city"
  /\ city = "chennai"
  /\ reading.a = Rd(2026, 1, 1, 0, 0)
  /\ converted.utcMs < DateUTC(2026, 1, 1, 0, 0) * TicksPerMinute
  /\ converted.dateTime = reading.a

====
